---------------------------- MODULE Spec2Model ----------------------------
(***************************************************************************)
(* A model of the VFS directory core of spacefm: the directory cache       *)
(* (dir_map), the directory entity and its load thread (vfs-dir.cxx), the  *)
(* inotify file monitor registry (vfs-file-monitor.cxx) and the async      *)
(* task runner (vfs-async-thread.cxx).                                     *)
(*                                                                         *)
(* Threads: one event-loop thread (the cache operations, the inotify       *)
(* dispatcher, the reconcile timer, the task-finish handler) and one load  *)
(* thread per directory instance.  Every event-loop handler is one action, *)
(* except vfs_dir_finalize, which blocks in the join of the load thread.   *)
(* The load thread is cut at each point where another thread can observe   *)
(* or change what it reads next.                                           *)
(***************************************************************************)
EXTENDS Integers, Sequences, FiniteSets, TLC

\* ------------------------------------------------------------------ bounds
MaxDirs == 2        \* directory instances constructed in one run
MaxFiles == 3       \* file entities constructed in one run
MaxDiskOps == 2     \* file creations / deletions / modifications on disk
MaxQueue == 2       \* inotify events waiting in the kernel queue
MaxRefs == 2        \* references held on one dir

DirIds == 1..MaxDirs
MonIds == 1..MaxDirs

\* The file names of the watched directory, and the spellings of one
\* directory: "a" is its real path, "l" a symlink to it.
Names == {"x", "xy"}
Paths == {"a", "l"}
RealPaths == {"a"}

\* realpath(3) of a path (vfs_file_monitor_add resolves symlinks).
realpath(p) == IF p = "l" THEN "a" ELSE p

VARIABLES
    dir,                    \* DirIds -> the VFSDir objects
    dir_map,                \* key pointer -> dir id (std::map<const char*, VFSDir*>)
    mime_cb,                \* the MIME reload callback is registered
    change_notify_timeout,  \* the reconcile timer is armed
    task,                   \* DirIds -> the load task of the dir
    thr,                    \* DirIds -> the load thread's position and locals
    mutex,                  \* DirIds -> who holds dir->mutex
    loop,                   \* the event-loop thread: idle, or joining a load thread
    nextFile,               \* the file entities constructed so far
    disk,                   \* the names that exist in the directory
    hidden_file,            \* the lines of its .hidden file
    diskOps,                \* disk changes so far
    monitor_hash,           \* real path -> monitor id (0: none)
    mon,                    \* MonIds -> the VFSFileMonitor objects
    inq,                    \* the inotify events not yet read
    emitted,                \* the signals emitted by the last event-loop step
    hist,                   \* DirIds -> history of the instance (ghost)
    at,                     \* a vfs::async_thread object
    atc,                    \* the threads using it (ghost positions)
    mime                    \* mime_map, its VFSMimeType objects and the reload

vars == <<dir, dir_map, mime_cb, change_notify_timeout, task, thr, mutex, loop,
          nextFile, disk, hidden_file, diskOps, monitor_hash, mon, inq,
          emitted, hist, at, atc, mime>>

dirVars == <<dir, dir_map, mime_cb, change_notify_timeout, task, thr, mutex, loop,
             nextFile, disk, hidden_file, diskOps, monitor_hash, mon, inq,
             emitted, hist>>

atVars == <<at, atc>>

\* ------------------------------------------------------------- the objects

\* A VFSDir as g_object_new leaves it (zero-filled), before vfs_dir_new.
DirFree ==
    [st |-> "free", path |-> "", ref_count |-> 0, task |-> FALSE, monitor |-> 0,
     file_list |-> <<>>, changed_files |-> <<>>, created_files |-> <<>>,
     file_listed |-> FALSE, load_complete |-> FALSE, xhidden_count |-> 0,
     avoid_changes |-> FALSE]

\* The load task of a dir: none, running (the thread runs), returned (the
\* thread has returned and the finish signal is due), finished (the signal
\* was delivered), freed (cancelled and released by vfs_dir_finalize).
TaskNone == [state |-> "none", cancel |-> FALSE, connected |-> FALSE]

ThrNone == [pc |-> "none", cur |-> "", snap |-> {}, visited |-> {}, hidden |-> <<>>]

\* listed: file-listed signals emitted; tasks, runs: load tasks created and
\* executed; monitor_at_scan: was vfs_file_monitor_add called before the
\* iterator was opened; born, gone: the names created / deleted on disk while
\* the monitor was installed and the scan was running; forced: the entries
\* for which vfs_dir_emit_file_changed was called with force = true and no
\* file-changed / file-deleted signal has been emitted since; last: the last
\* event-loop entry into the dir (a monitor event, a forced change, the
\* reconcile timer) and the name it was called with; handler_saw: what
\* dir->file_listed and dir->task were when g_signal_emit ran the handlers of
\* the last file-listed; thumbnail: the entries the thumbnailer holds a
\* request for, and the file and file_found of the last call of
\* vfs_dir_emit_thumbnail_loaded.
HistNone == [listed |-> 0, tasks |-> 0, runs |-> 0, monitor_at_scan |-> "unset",
             born |-> {}, gone |-> {}, forced |-> {},
             last |-> [evt |-> "none", name |-> ""],
             handler_saw |-> [file_listed |-> FALSE, task |-> FALSE],
             thumbnail |-> [requests |-> {}, file |-> [id |-> 0, name |-> ""],
                           found |-> [id |-> 0, name |-> ""]]]

MonFree == [alive |-> FALSE, path |-> "", callbacks |-> <<>>, n_ref |-> 0]

\* The pointer held in dir->path (ztd::strdup of the caller's string), and a
\* string object owned by a caller.  Two pointers are equal when they are the
\* same object; str is what they point to.
PathPtr(d) == [own |-> d, str |-> dir[d].path]
CallerPtr(p) == [own |-> 0, str |-> p]

LiveDirs == {d \in DirIds : dir[d].st = "live"}
FreeDirs == {d \in DirIds : dir[d].st = "free"}

\* The const char* values a caller can pass: its own strings and the path
\* buffers of the dirs it holds.
LivePtrs == {CallerPtr(p) : p \in Paths} \cup {PathPtr(d) : d \in LiveDirs}

Range(s) == {s[i] : i \in 1..Len(s)}

Sig(kind, d, f, c) == [sig |-> kind, dir |-> d, file |-> f, cancelled |-> c]

Min(S) == CHOOSE x \in S : \A y \in S : x <= y

SetDir(d, rec) == [dir EXCEPT ![d] = rec]

\* ------------------------------------------------- the file monitor registry

\* VFSFileMonitor::VFSFileMonitor: ref_inc() on a zero count, then the path.
VFSFileMonitor_new(real_path) ==
    [alive |-> TRUE, path |-> real_path, callbacks |-> <<>>, n_ref |-> 0 + 1]

\* The first callback entry of the monitor registered for user_data, or 0.
CallbackIndex(cbs, user_data) ==
    IF \E i \in 1..Len(cbs) : cbs[i] = user_data
    THEN Min({i \in 1..Len(cbs) : cbs[i] = user_data})
    ELSE 0

RemoveAt(s, i) == [j \in 1..(Len(s) - 1) |-> IF j < i THEN s[j] ELSE s[j + 1]]

\* vfs_file_monitor_add(path, cb, user_data) with the outcome of
\* inotify_add_watch: the registry after the call and the monitor returned
\* (0: nullptr).  The watch descriptor of a monitor is its id.
MonitorAddResult(path, user_data, watch_ok) ==
    LET real_path == realpath(path)
        found == monitor_hash[real_path]
        fresh == Min({m \in MonIds : ~mon[m].alive /\ mon[m].path = ""})
    IN  IF found = 0 /\ ~watch_ok
        THEN [hash |-> monitor_hash, mon |-> mon, ret |-> 0]
        ELSE LET m == IF found # 0 THEN found ELSE fresh
                 obj == IF found # 0 THEN mon[m] ELSE VFSFileMonitor_new(real_path)
             IN  [hash |-> [monitor_hash EXCEPT ![real_path] = m],
                  mon |-> [mon EXCEPT ![m] =
                              [obj EXCEPT !.callbacks = Append(@, user_data)]],
                  ret |-> m]

\* vfs_file_monitor_remove(fm, cb, user_data) on a monitor that is alive:
\* drop the first matching callback entry, ref_dec(), and delete the monitor
\* (remove its watch and its registry entry) when the count reaches 0.
MonitorRemoveResult(fm, user_data) ==
    LET i == CallbackIndex(mon[fm].callbacks, user_data)
        cbs == IF i = 0 THEN mon[fm].callbacks ELSE RemoveAt(mon[fm].callbacks, i)
        n == mon[fm].n_ref - 1
    IN  IF n = 0
        THEN [hash |-> [monitor_hash EXCEPT ![mon[fm].path] = 0],
              mon |-> [mon EXCEPT ![fm] =
                          [alive |-> FALSE, path |-> mon[fm].path,
                           callbacks |-> <<>>, n_ref |-> 0]]]
        ELSE [hash |-> monitor_hash,
              mon |-> [mon EXCEPT ![fm] = [@ EXCEPT !.callbacks = cbs, !.n_ref = n]]]

\* The monitors a vfs_file_monitor_remove(fm, ...) call can act on.  A deleted
\* monitor is a dangling pointer: the call then either finds the freed memory
\* as the destructor left it (no entry to drop, the count wraps and is not 0:
\* victim 0), or the memory has been given to a monitor created since, and it
\* acts on that one.
RemoveVictims(fm) ==
    IF mon[fm].alive THEN {fm}
    ELSE {0} \cup {m \in MonIds : mon[m].alive}

\* ------------------------------------------------------------ the dir cache

\* dir_map.at(path): std::map<const char*, VFSDir*> orders its keys with
\* std::less<const char*>, so a key is found when it is the same pointer.
DirMapAt(ptr) == IF ptr \in DOMAIN dir_map THEN dir_map[ptr] ELSE 0

\* Is the dir an entry of dir_map?
InMap(d) == \E k \in DOMAIN dir_map : dir_map[k] = d

\* vfs_dir_new: g_object_new, path = strdup(path), avoid_changes.
vfs_dir_new(path, avoid) ==
    [DirFree EXCEPT !.st = "live", !.path = path, !.ref_count = 1,
                    !.avoid_changes = avoid]

\* vfs_dir_load: create the task, connect on_list_task_finished to its
\* "finish" signal, execute it (the load thread starts).
vfs_dir_load(d) ==
    /\ task' = [task EXCEPT ![d] =
                   [state |-> "running", cancel |-> FALSE, connected |-> TRUE]]
    /\ thr' = [thr EXCEPT ![d] = [ThrNone EXCEPT !.pc = "begin"]]
    /\ hist' = [hist EXCEPT ![d].tasks = @ + 1, ![d].runs = @ + 1]

\* Fault: vfs_dir_get_by_path that calls vfs_dir_load for a dir it has found
\* in dir_map as well.
vfs_dir_get_by_path_reloading(ptr, avoid) ==
    /\ loop = 0
    /\ mime_cb' = TRUE
    /\ emitted' = <<>>
    /\ LET found == DirMapAt(ptr) IN
       IF found # 0
       THEN /\ dir[found].ref_count < MaxRefs
            /\ dir' = [dir EXCEPT ![found].ref_count = @ + 1, ![found].task = TRUE]
            /\ vfs_dir_load(found)
            /\ UNCHANGED dir_map
       ELSE /\ FreeDirs # {}
            /\ LET d == Min(FreeDirs) IN
               /\ dir' = [dir EXCEPT ![d] =
                             [vfs_dir_new(ptr.str, avoid) EXCEPT !.task = TRUE]]
               /\ vfs_dir_load(d)
               /\ dir_map' = [k \in DOMAIN dir_map \cup {[own |-> d, str |-> ptr.str]} |->
                                 IF k \in DOMAIN dir_map THEN dir_map[k] ELSE d]
    /\ UNCHANGED <<change_notify_timeout, mutex, loop, nextFile, disk, hidden_file,
                   diskOps, monitor_hash, mon, inq, atVars, mime>>

\* vfs_dir_get_by_path(path): avoid is the answer of
\* vfs_volume_dir_avoid_changes for a dir constructed by the call.
vfs_dir_get_by_path(ptr, avoid) ==
    /\ loop = 0
    /\ mime_cb' = TRUE
    /\ emitted' = <<>>
    /\ LET found == DirMapAt(ptr) IN
       IF found # 0
       THEN /\ dir[found].ref_count < MaxRefs
            /\ dir' = [dir EXCEPT ![found].ref_count = @ + 1]
            /\ UNCHANGED <<dir_map, task, thr, hist>>
       ELSE /\ FreeDirs # {}
            /\ LET d == Min(FreeDirs) IN
               /\ dir' = [dir EXCEPT ![d] =
                             [vfs_dir_new(ptr.str, avoid) EXCEPT !.task = TRUE]]
               /\ vfs_dir_load(d)
               /\ dir_map' = [k \in DOMAIN dir_map \cup {[own |-> d, str |-> ptr.str]} |->
                                 IF k \in DOMAIN dir_map THEN dir_map[k] ELSE d]
    /\ UNCHANGED <<change_notify_timeout, mutex, loop, nextFile, disk, hidden_file,
                   diskOps, monitor_hash, mon, inq, atVars, mime>>

\* vfs_dir_get_by_path_soft(path): a reference to the registered dir, if any.
vfs_dir_get_by_path_soft(ptr) ==
    /\ loop = 0
    /\ emitted' = <<>>
    /\ LET found == DirMapAt(ptr) IN
       /\ found # 0 => dir[found].ref_count < MaxRefs
       /\ dir' = IF found # 0 THEN [dir EXCEPT ![found].ref_count = @ + 1] ELSE dir
    /\ UNCHANGED <<dir_map, mime_cb, change_notify_timeout, task, thr, mutex, loop,
                   nextFile, disk, hidden_file, diskOps, monitor_hash, mon, inq,
                   hist, atVars, mime>>

\* Fault: vfs_dir_finalize without vfs_file_monitor_remove.
FinalizeRest_no_monitor_remove(d, victim) ==
    LET keys == DOMAIN dir_map \ {PathPtr(d)}
    IN  /\ UNCHANGED <<monitor_hash, mon>>
        /\ dir_map' = [k \in keys |-> dir_map[k]]
        /\ mime_cb' = IF keys = {} THEN FALSE ELSE mime_cb
        /\ change_notify_timeout' = IF keys = {} THEN FALSE ELSE change_notify_timeout
        /\ dir' = [dir EXCEPT ![d] =
                      [@ EXCEPT !.st = "dead", !.ref_count = 0, !.task = FALSE,
                                !.file_list = <<>>, !.changed_files = <<>>,
                                !.created_files = <<>>]]
        /\ loop' = 0

\* Fault: vfs_dir_finalize without dir_map.erase(dir->path).
FinalizeRest_no_erase(d, victim) ==
    LET rm == IF dir[d].monitor # 0 /\ victim # 0
              THEN MonitorRemoveResult(victim, d)
              ELSE [hash |-> monitor_hash, mon |-> mon]
    IN  /\ monitor_hash' = rm.hash
        /\ mon' = rm.mon
        /\ UNCHANGED <<dir_map, mime_cb, change_notify_timeout>>
        /\ dir' = [dir EXCEPT ![d] =
                      [@ EXCEPT !.st = "dead", !.ref_count = 0, !.task = FALSE,
                                !.file_list = <<>>, !.changed_files = <<>>,
                                !.created_files = <<>>]]
        /\ loop' = 0

\* vfs_dir_finalize after the task has been dealt with: detach the monitor,
\* leave dir_map, drop the global callbacks with the last dir, free the lists.
FinalizeRest(d, victim) ==
    LET rm == IF dir[d].monitor # 0 /\ victim # 0
              THEN MonitorRemoveResult(victim, d)
              ELSE [hash |-> monitor_hash, mon |-> mon]
        keys == DOMAIN dir_map \ {PathPtr(d)}
    IN  /\ monitor_hash' = rm.hash
        /\ mon' = rm.mon
        /\ dir_map' = [k \in keys |-> dir_map[k]]
        /\ mime_cb' = IF keys = {} THEN FALSE ELSE mime_cb
        /\ change_notify_timeout' = IF keys = {} THEN FALSE ELSE change_notify_timeout
        /\ dir' = [dir EXCEPT ![d] =
                      [@ EXCEPT !.st = "dead", !.ref_count = 0, !.task = FALSE,
                                !.file_list = <<>>, !.changed_files = <<>>,
                                !.created_files = <<>>]]
        /\ loop' = 0

\* g_object_unref(dir).  Releasing the last reference runs vfs_dir_finalize:
\* with a task, disconnect on_list_task_finished and cancel the task, which
\* waits for the load thread.
Unref(d) ==
    /\ loop = 0
    /\ dir[d].st = "live"
    /\ emitted' = <<>>
    /\ IF dir[d].ref_count > 1
       THEN /\ dir' = [dir EXCEPT ![d].ref_count = @ - 1]
            /\ UNCHANGED <<dir_map, mime_cb, change_notify_timeout, task, loop,
                           monitor_hash, mon>>
       ELSE IF dir[d].task /\ thr[d].pc # "done"
       THEN /\ dir' = [dir EXCEPT ![d].ref_count = 0]
            /\ task' = [task EXCEPT ![d].connected = FALSE, ![d].cancel = TRUE]
            /\ loop' = d
            /\ UNCHANGED <<dir_map, mime_cb, change_notify_timeout, monitor_hash, mon>>
       ELSE /\ task' = [task EXCEPT ![d].connected = FALSE,
                                    ![d].cancel = IF dir[d].task THEN TRUE ELSE @,
                                    ![d].state = IF dir[d].task THEN "freed" ELSE @]
            /\ \E victim \in (IF dir[d].monitor = 0 THEN {0}
                              ELSE RemoveVictims(dir[d].monitor)) :
                   FinalizeRest(d, victim)
    /\ UNCHANGED <<thr, mutex, nextFile, disk, hidden_file, diskOps, inq, hist, atVars, mime>>

\* The join in vfs_async_task_cancel returns: the rest of vfs_dir_finalize.
FinalizeJoined(d) ==
    /\ loop = d
    /\ thr[d].pc = "done"
    /\ emitted' = <<>>
    /\ task' = [task EXCEPT ![d].state = "freed"]
    /\ \E victim \in (IF dir[d].monitor = 0 THEN {0}
                      ELSE RemoveVictims(dir[d].monitor)) :
           FinalizeRest(d, victim)
    /\ UNCHANGED <<thr, mutex, nextFile, disk, hidden_file, diskOps, inq, hist, atVars, mime>>

\* ----------------------------------------------------------- the load thread

\* The characters of a file name (std::string).
Chars(n) ==
    CASE n = "x" -> <<"x">>
      [] n = "xy" -> <<"x", "y">>
      [] OTHER -> <<>>

RECURSIVE Concat(_)
Concat(ss) == IF ss = <<>> THEN <<>> ELSE Head(ss) \o Concat(Tail(ss))

\* gethidden: the lines of .hidden, each followed by '\n', in one string.
gethidden(lines) == Concat([i \in 1..Len(lines) |-> Chars(lines[i]) \o <<"\n">>])

\* ztd::contains(std::string_view, std::string_view): substring search.
StrContains(h, s) ==
    \E i \in 0..(Len(h) - Len(s)) : SubSeq(h, i + 1, i + Len(s)) = s

\* ishidden(hidden, file_name)
ishidden(hidden, file_name) == StrContains(hidden, Chars(file_name))

ThreadUnchanged ==
    UNCHANGED <<dir_map, mime_cb, change_notify_timeout, loop, diskOps, disk,
                hidden_file, inq, emitted, atVars, mime>>

\* Fault: vfs_dir_load_thread that returns when vfs_file_monitor_add has
\* failed.
LoadThread_Install_or_return(d, watch_ok) ==
    /\ thr[d].pc = "begin"
    /\ LET r == MonitorAddResult(dir[d].path, d, watch_ok) IN
       /\ monitor_hash' = r.hash
       /\ mon' = r.mon
       /\ dir' = [dir EXCEPT ![d].file_listed = FALSE, ![d].load_complete = FALSE,
                             ![d].xhidden_count = 0, ![d].monitor = r.ret]
       /\ thr' = [thr EXCEPT ![d].pc = IF r.ret = 0 THEN "done" ELSE "hidden"]
       /\ task' = [task EXCEPT ![d].state = IF r.ret = 0 THEN "returned" ELSE @]
    /\ hist' = [hist EXCEPT ![d].monitor_at_scan = IF dir'[d].monitor = 0
                                                   THEN "before_scan" ELSE "called"]
    /\ UNCHANGED <<mutex, nextFile>>
    /\ ThreadUnchanged

\* Fault: vfs_dir_load_thread that goes on to the scan without having called
\* vfs_file_monitor_add.
LoadThread_Install_skipped(d, watch_ok) ==
    /\ thr[d].pc = "begin"
    /\ dir' = [dir EXCEPT ![d].file_listed = FALSE, ![d].load_complete = FALSE,
                          ![d].xhidden_count = 0]
    /\ thr' = [thr EXCEPT ![d].pc = "hidden"]
    /\ UNCHANGED <<task, mutex, nextFile, monitor_hash, mon, hist>>
    /\ ThreadUnchanged

\* vfs_dir_load_thread, up to the monitor: reset the flags and the hidden
\* count, then vfs_file_monitor_add(dir->path, vfs_dir_monitor_callback, dir).
LoadThread_Install(d, watch_ok) ==
    /\ thr[d].pc = "begin"
    /\ LET r == MonitorAddResult(dir[d].path, d, watch_ok) IN
       /\ monitor_hash' = r.hash
       /\ mon' = r.mon
       /\ dir' = [dir EXCEPT ![d].file_listed = FALSE, ![d].load_complete = FALSE,
                             ![d].xhidden_count = 0, ![d].monitor = r.ret]
    /\ thr' = [thr EXCEPT ![d].pc = "hidden"]
    /\ hist' = [hist EXCEPT ![d].monitor_at_scan = "called"]
    /\ UNCHANGED <<task, mutex, nextFile>>
    /\ ThreadUnchanged

\* gethidden(dir->path) and the construction of the directory_iterator.
LoadThread_Open(d) ==
    /\ thr[d].pc = "hidden"
    /\ thr' = [thr EXCEPT ![d].pc = "iter", ![d].hidden = gethidden(hidden_file),
                          ![d].snap = disk]
    /\ hist' = [hist EXCEPT ![d].monitor_at_scan =
                   IF @ = "called" THEN "before_scan" ELSE "after_scan"]
    /\ UNCHANGED <<dir, task, mutex, nextFile, monitor_hash, mon>>
    /\ ThreadUnchanged

\* One turn of the loop finds the task cancelled: break, and the thread returns.
LoadThread_Cancelled(d) ==
    /\ thr[d].pc = "iter"
    /\ task[d].cancel
    /\ thr' = [thr EXCEPT ![d].pc = "done"]
    /\ task' = [task EXCEPT ![d].state = "returned"]
    /\ UNCHANGED <<dir, mutex, nextFile, monitor_hash, mon, hist>>
    /\ ThreadUnchanged

\* One turn of the loop: the iterator yields an entry that exists now and was
\* not yielded before; a name of .hidden is counted and skipped.
LoadThread_Entry(d, n) ==
    /\ thr[d].pc = "iter"
    /\ ~task[d].cancel
    /\ n \in disk \ thr[d].visited
    /\ IF ishidden(thr[d].hidden, n)
       THEN /\ dir' = [dir EXCEPT ![d].xhidden_count = @ + 1]
            /\ thr' = [thr EXCEPT ![d].visited = @ \cup {n}]
       ELSE /\ dir' = dir
            /\ thr' = [thr EXCEPT ![d].visited = @ \cup {n}, ![d].cur = n,
                                  ![d].pc = "stat"]
    /\ UNCHANGED <<task, mutex, nextFile, monitor_hash, mon, hist>>
    /\ ThreadUnchanged

\* The iterator is exhausted: every entry that was there when it was opened
\* and still is has been yielded (entries created since may not be).
LoadThread_End(d) ==
    /\ thr[d].pc = "iter"
    /\ ~task[d].cancel
    /\ (thr[d].snap \cap disk) \ thr[d].visited = {}
    /\ thr' = [thr EXCEPT ![d].pc = "done"]
    /\ task' = [task EXCEPT ![d].state = "returned"]
    /\ UNCHANGED <<dir, mutex, nextFile, monitor_hash, mon, hist>>
    /\ ThreadUnchanged

\* vfs_file_info_new and vfs_file_info_get(fi, full_path): the entry is kept
\* when the path exists, freed when it has vanished.
LoadThread_Stat(d) ==
    /\ thr[d].pc = "stat"
    /\ thr' = [thr EXCEPT ![d].pc = IF thr[d].cur \in disk THEN "lock" ELSE "iter"]
    /\ UNCHANGED <<dir, task, mutex, nextFile, monitor_hash, mon, hist>>
    /\ ThreadUnchanged

\* vfs_dir_lock(dir)
LoadThread_Lock(d) ==
    /\ thr[d].pc = "lock"
    /\ mutex[d] = "free"
    /\ mutex' = [mutex EXCEPT ![d] = "scan"]
    /\ thr' = [thr EXCEPT ![d].pc = "append"]
    /\ UNCHANGED <<dir, task, nextFile, monitor_hash, mon, hist>>
    /\ ThreadUnchanged

\* dir->file_list.push_back(fi); vfs_dir_unlock(dir)
LoadThread_Append(d) ==
    /\ thr[d].pc = "append"
    /\ nextFile <= MaxFiles
    /\ nextFile' = nextFile + 1
    /\ dir' = [dir EXCEPT ![d].file_list =
                  Append(@, [id |-> nextFile, name |-> thr[d].cur])]
    /\ mutex' = [mutex EXCEPT ![d] = "free"]
    /\ thr' = [thr EXCEPT ![d].pc = "iter"]
    /\ UNCHANGED <<task, monitor_hash, mon, hist>>
    /\ ThreadUnchanged

\* Fault: on_list_task_finished that leaves load_complete as it was.
on_list_task_finished_incomplete(d, is_cancelled) ==
    /\ dir' = [dir EXCEPT ![d].task = FALSE, ![d].file_listed = TRUE]
    /\ emitted' = <<Sig("file-listed", d, 0, is_cancelled)>>
    /\ hist' = [hist EXCEPT ![d].listed = @ + 1]

\* on_list_task_finished(task, is_cancelled, dir)
on_list_task_finished(d, is_cancelled) ==
    /\ dir' = [dir EXCEPT ![d].task = FALSE, ![d].file_listed = TRUE,
                          ![d].load_complete = TRUE]
    /\ emitted' = <<Sig("file-listed", d, 0, is_cancelled)>>
    /\ hist' = [hist EXCEPT ![d].listed = @ + 1,
                            ![d].handler_saw = [file_listed |-> dir[d].file_listed,
                                                task |-> FALSE]]

\* The task's "finish" signal reaches the event loop after the load thread has
\* returned, and runs the handlers connected to it.
TaskFinish(d) ==
    /\ loop = 0
    /\ task[d].state = "returned"
    /\ task[d].connected
    /\ task' = [task EXCEPT ![d].state = "finished"]
    /\ on_list_task_finished(d, task[d].cancel)
    /\ UNCHANGED <<dir_map, mime_cb, change_notify_timeout, thr, mutex, loop,
                   nextFile, disk, hidden_file, diskOps, monitor_hash, mon, inq, atVars, mime>>

\* ------------------------------------------------- the event-loop handlers
\* A handler that calls other handlers is written as a function of the part
\* of the state they share: s.dir (the dirs), s.nf (the next file entity),
\* s.tmo (change_notify_timeout) and s.em (the signals emitted so far).

NoFile == [id |-> 0, name |-> ""]

HState == [dir |-> dir, nf |-> nextFile, tmo |-> change_notify_timeout, em |-> <<>>]

\* vfs_dir_find_file(dir, file_name, nullptr): the first entry of that name.
vfs_dir_find_file(fl, file_name) ==
    IF \E i \in 1..Len(fl) : fl[i].name = file_name
    THEN fl[Min({i \in 1..Len(fl) : fl[i].name = file_name})]
    ELSE NoFile

Contains(list, x) == \E i \in 1..Len(list) : list[i] = x

\* ztd::remove(list, x)
Remove(list, x) == SelectSeq(list, LAMBDA e : e # x)

\* vfs_file_info_get(fi, full_path): does the path exist?
vfs_file_info_get(name) == name \in disk

\* vfs_dir_emit_file_created(dir, file_name, force)
\* Fault: vfs_dir_emit_file_created without the test for the dir's own path.
vfs_dir_emit_file_created_no_self_test(s, d, file_name) ==
    [s EXCEPT !.dir[d].created_files = Append(@, file_name), !.tmo = TRUE]

vfs_dir_emit_file_created(s, d, file_name) ==
    IF file_name = s.dir[d].path
    THEN s
    ELSE [s EXCEPT !.dir[d].created_files = Append(@, file_name), !.tmo = TRUE]

\* Fault: vfs_dir_emit_file_deleted that signals the deletion of the
\* directory itself without clearing file_list.
vfs_dir_emit_file_deleted_no_clear(s, d, file_name) ==
    IF file_name = s.dir[d].path
    THEN [s EXCEPT !.em = Append(@, Sig("file-deleted", d, 0, FALSE))]
    ELSE LET file_found == vfs_dir_find_file(s.dir[d].file_list, file_name) IN
         IF file_found.id # 0 /\ ~Contains(s.dir[d].changed_files, file_found)
         THEN [s EXCEPT !.dir[d].changed_files = Append(@, file_found), !.tmo = TRUE]
         ELSE s

\* vfs_dir_emit_file_deleted(dir, file_name, nullptr)
\* Fault: vfs_dir_emit_file_deleted that queues the entry without arming the
\* reconcile timer.
vfs_dir_emit_file_deleted_no_timer(s, d, file_name) ==
    IF file_name = s.dir[d].path
    THEN [s EXCEPT !.dir[d].file_list = <<>>,
                   !.em = Append(@, Sig("file-deleted", d, 0, FALSE))]
    ELSE LET file_found == vfs_dir_find_file(s.dir[d].file_list, file_name) IN
         IF file_found.id # 0 /\ ~Contains(s.dir[d].changed_files, file_found)
         THEN [s EXCEPT !.dir[d].changed_files = Append(@, file_found)]
         ELSE s

vfs_dir_emit_file_deleted(s, d, file_name) ==
    IF file_name = s.dir[d].path
    THEN [s EXCEPT !.dir[d].file_list = <<>>,
                   !.em = Append(@, Sig("file-deleted", d, 0, FALSE))]
    ELSE LET file_found == vfs_dir_find_file(s.dir[d].file_list, file_name) IN
         IF file_found.id # 0 /\ ~Contains(s.dir[d].changed_files, file_found)
         THEN [s EXCEPT !.dir[d].changed_files = Append(@, file_found), !.tmo = TRUE]
         ELSE s

\* Fault: update_file_info that signals the deletion of a vanished file but
\* leaves its entry in file_list.
update_file_info_keeps_entry(s, d, file) ==
    IF vfs_file_info_get(file.name)
    THEN [s |-> s, ret |-> TRUE]
    ELSE IF Contains(s.dir[d].file_list, file)
         THEN [s |-> [s EXCEPT !.em = Append(@, Sig("file-deleted", d, file.id, FALSE))],
               ret |-> FALSE]
         ELSE [s |-> s, ret |-> FALSE]

\* Fault: update_file_info that signals the deletion without testing that the
\* file is an entry of file_list.
update_file_info_unlisted(s, d, file) ==
    IF vfs_file_info_get(file.name)
    THEN [s |-> s, ret |-> TRUE]
    ELSE [s |-> [s EXCEPT !.dir[d].file_list = Remove(@, file),
                          !.em = Append(@, Sig("file-deleted", d, file.id, FALSE))],
          ret |-> FALSE]

\* update_file_info(dir, file): [s: the state after, ret: the file exists].
update_file_info(s, d, file) ==
    IF vfs_file_info_get(file.name)
    THEN [s |-> s, ret |-> TRUE]
    ELSE IF Contains(s.dir[d].file_list, file)
         THEN [s |-> [s EXCEPT !.dir[d].file_list = Remove(@, file),
                               !.em = Append(@, Sig("file-deleted", d, file.id, FALSE))],
               ret |-> FALSE]
         ELSE [s |-> s, ret |-> FALSE]

\* Fault: vfs_dir_emit_file_changed that lets avoid_changes suppress a forced
\* change as well.
vfs_dir_emit_file_changed_avoid_forced(s, d, file_name, force) ==
    IF s.dir[d].avoid_changes
    THEN s
    ELSE IF file_name = s.dir[d].path
    THEN [s EXCEPT !.em = Append(@, Sig("file-changed", d, 0, FALSE))]
    ELSE LET file_found == vfs_dir_find_file(s.dir[d].file_list, file_name) IN
         IF file_found.id = 0 \/ Contains(s.dir[d].changed_files, file_found)
         THEN s
         ELSE IF force
         THEN [s EXCEPT !.dir[d].changed_files = Append(@, file_found), !.tmo = TRUE]
         ELSE LET u == update_file_info(s, d, file_found) IN
              IF u.ret
              THEN [u.s EXCEPT !.dir[d].changed_files = Append(@, file_found),
                               !.tmo = TRUE,
                               !.em = Append(@, Sig("file-changed", d, file_found.id, FALSE))]
              ELSE u.s

\* Fault: vfs_dir_emit_file_changed without the avoid_changes test.
vfs_dir_emit_file_changed_no_avoid(s, d, file_name, force) ==
    IF file_name = s.dir[d].path
    THEN [s EXCEPT !.em = Append(@, Sig("file-changed", d, 0, FALSE))]
    ELSE LET file_found == vfs_dir_find_file(s.dir[d].file_list, file_name) IN
         IF file_found.id = 0 \/ Contains(s.dir[d].changed_files, file_found)
         THEN s
         ELSE IF force
         THEN [s EXCEPT !.dir[d].changed_files = Append(@, file_found), !.tmo = TRUE]
         ELSE LET u == update_file_info(s, d, file_found) IN
              IF u.ret
              THEN [u.s EXCEPT !.dir[d].changed_files = Append(@, file_found),
                               !.tmo = TRUE,
                               !.em = Append(@, Sig("file-changed", d, file_found.id, FALSE))]
              ELSE u.s

\* vfs_dir_emit_file_changed(dir, file_name, nullptr, force)
vfs_dir_emit_file_changed(s, d, file_name, force) ==
    IF ~force /\ s.dir[d].avoid_changes
    THEN s
    ELSE IF file_name = s.dir[d].path
    THEN [s EXCEPT !.em = Append(@, Sig("file-changed", d, 0, FALSE))]
    ELSE LET file_found == vfs_dir_find_file(s.dir[d].file_list, file_name) IN
         IF file_found.id = 0 \/ Contains(s.dir[d].changed_files, file_found)
         THEN s
         ELSE IF force
         THEN [s EXCEPT !.dir[d].changed_files = Append(@, file_found), !.tmo = TRUE]
         ELSE LET u == update_file_info(s, d, file_found) IN
              IF u.ret
              THEN [u.s EXCEPT !.dir[d].changed_files = Append(@, file_found),
                               !.tmo = TRUE,
                               !.em = Append(@, Sig("file-changed", d, file_found.id, FALSE))]
              ELSE u.s

\* update_changed_files(key, dir): the loop over dir->changed_files from entry i.
RECURSIVE ChangedFrom(_, _, _, _)
ChangedFrom(s, d, files, i) ==
    IF i > Len(files) THEN s
    ELSE LET u == update_file_info(s, d, files[i])
             s2 == IF u.ret
                   THEN [u.s EXCEPT !.em =
                            Append(@, Sig("file-changed", d, files[i].id, FALSE))]
                   ELSE u.s
         IN  ChangedFrom(s2, d, files, i + 1)

update_changed_files(s, d) ==
    IF s.dir[d].changed_files = <<>>
    THEN s
    ELSE [ChangedFrom(s, d, s.dir[d].changed_files, 1) EXCEPT !.dir[d].changed_files = <<>>]

\* update_created_files(key, dir): the loop over dir->created_files from entry i.
RECURSIVE CreatedFrom(_, _, _, _)
CreatedFrom(s, d, names, i) ==
    IF i > Len(names) THEN s
    ELSE LET file_found == vfs_dir_find_file(s.dir[d].file_list, names[i])
             file == [id |-> s.nf, name |-> names[i]]
             s2 == IF file_found.id = 0
                   THEN IF vfs_file_info_get(names[i])
                        THEN [s EXCEPT !.dir[d].file_list = Append(@, file),
                                       !.nf = @ + 1,
                                       !.em = Append(@, Sig("file-created", d, file.id, FALSE))]
                        ELSE s
                   ELSE LET u == update_file_info(s, d, file_found) IN
                        IF u.ret
                        THEN [u.s EXCEPT !.em =
                                 Append(@, Sig("file-changed", d, file_found.id, FALSE))]
                        ELSE u.s
         IN  CreatedFrom(s2, d, names, i + 1)

\* Fault: update_created_files that walks created_files from its last entry
\* to its first.
update_created_files_lifo(s, d) ==
    IF s.dir[d].created_files = <<>>
    THEN s
    ELSE LET names == s.dir[d].created_files
             rev == [i \in 1..Len(names) |-> names[Len(names) + 1 - i]]
         IN  [CreatedFrom(s, d, rev, 1) EXCEPT !.dir[d].created_files = <<>>]

update_created_files(s, d) ==
    IF s.dir[d].created_files = <<>>
    THEN s
    ELSE [CreatedFrom(s, d, s.dir[d].created_files, 1) EXCEPT !.dir[d].created_files = <<>>]

\* The dirs of dir_map in the order of iteration.
RECURSIVE SetToSeq(_)
SetToSeq(S) == IF S = {} THEN <<>> ELSE <<Min(S)>> \o SetToSeq(S \ {Min(S)})

MapDirs == SetToSeq({dir_map[k] : k \in DOMAIN dir_map})

\* The loop of notify_file_change / vfs_dir_flush_notify_cache over dir_map.
RECURSIVE ReconcileFrom(_, _, _)
ReconcileFrom(s, ds, i) ==
    IF i > Len(ds) THEN s
    ELSE ReconcileFrom(update_created_files(update_changed_files(s, ds[i]), ds[i]), ds, i + 1)

\* The handler's result becomes the next state.
Commit(s) ==
    /\ dir' = s.dir
    /\ nextFile' = s.nf
    /\ change_notify_timeout' = s.tmo
    /\ emitted' = s.em

\* Has the dir emitted file-changed or file-deleted for the entry?
Signalled(em, d, file) ==
    \E i \in 1..Len(em) :
        /\ em[i].sig \in {"file-changed", "file-deleted"}
        /\ em[i].dir = d
        /\ em[i].file = file.id

\* notify_file_change: the reconcile timer fires.
notify_file_change ==
    /\ loop = 0
    /\ change_notify_timeout
    /\ \A d \in LiveDirs :
          (dir[d].changed_files # <<>> \/ dir[d].created_files # <<>>) => mutex[d] = "free"
    /\ LET s == ReconcileFrom(HState, MapDirs, 1) IN
       /\ s.nf <= MaxFiles + 1
       /\ Commit([s EXCEPT !.tmo = FALSE])
       /\ hist' = [d \in DirIds |->
                      [hist[d] EXCEPT !.forced = {f \in @ : ~Signalled(s.em, d, f)},
                                      !.last = IF InMap(d)
                                               THEN [evt |-> "RECONCILE", name |-> ""]
                                               ELSE @]]
    /\ UNCHANGED <<dir_map, mime_cb, task, thr, mutex, loop, disk, hidden_file,
                   diskOps, monitor_hash, mon, inq, atVars, mime>>

\* vfs_dir_emit_file_changed(dir, file_name, nullptr, true), called on the
\* event loop by a holder of the dir.
ForcedChange(d, file_name) ==
    /\ loop = 0
    /\ dir[d].st = "live"
    /\ file_name # dir[d].path => mutex[d] = "free"
    /\ Commit(vfs_dir_emit_file_changed(HState, d, file_name, TRUE))
    /\ LET file_found == vfs_dir_find_file(dir[d].file_list, file_name) IN
       hist' = [hist EXCEPT ![d].forced = IF file_found.id # 0
                                          THEN @ \cup {file_found} ELSE @,
                            ![d].last = [evt |-> "FORCED", name |-> file_name]]
    /\ UNCHANGED <<dir_map, mime_cb, task, thr, mutex, loop, disk, hidden_file,
                   diskOps, monitor_hash, mon, inq, atVars, mime>>

\* ------------------------------------------------------------------ inotify

IN_CREATE == "IN_CREATE"
IN_MOVED_TO == "IN_MOVED_TO"
IN_DELETE == "IN_DELETE"
IN_MOVED_FROM == "IN_MOVED_FROM"
IN_DELETE_SELF == "IN_DELETE_SELF"
IN_UNMOUNT == "IN_UNMOUNT"
IN_MODIFY == "IN_MODIFY"
IN_ATTRIB == "IN_ATTRIB"
IN_MOVE_SELF == "IN_MOVE_SELF"

\* vfs_file_monitor_translate_inotify_event(mask); a mask is its set of bits.
vfs_file_monitor_translate_inotify_event(mask) ==
    IF mask \cap {IN_CREATE, IN_MOVED_TO} # {} THEN "CREATE"
    ELSE IF mask \cap {IN_DELETE, IN_MOVED_FROM, IN_DELETE_SELF, IN_UNMOUNT} # {} THEN "DELETE"
    ELSE IF mask \cap {IN_MODIFY, IN_ATTRIB} # {} THEN "CHANGE"
    ELSE "CHANGE"

\* vfs_dir_monitor_callback(monitor, event, file_name, dir)
vfs_dir_monitor_callback(s, d, event, file_name) ==
    CASE event = "CREATE" -> vfs_dir_emit_file_created(s, d, file_name)
      [] event = "DELETE" -> vfs_dir_emit_file_deleted(s, d, file_name)
      [] event = "CHANGE" -> vfs_dir_emit_file_changed(s, d, file_name, FALSE)
      [] OTHER -> s

\* vfs_file_monitor_dispatch_event: every callback of the monitor, in order.
RECURSIVE DispatchFrom(_, _, _, _, _)
DispatchFrom(s, cbs, i, evt, file_name) ==
    IF i > Len(cbs) THEN s
    ELSE DispatchFrom(vfs_dir_monitor_callback(s, cbs[i], evt, file_name),
                      cbs, i + 1, evt, file_name)

\* Does the callback take dir->mutex for this event?
TakesMutex(d, evt, file_name) ==
    \/ evt = "DELETE" /\ file_name = dir[d].path
    \/ evt = "CHANGE" /\ ~dir[d].avoid_changes /\ file_name # dir[d].path

\* vfs_file_monitor_on_inotify_event for one event read from the inotify fd:
\* find the monitor of the watch descriptor and dispatch to its callbacks.
vfs_file_monitor_on_inotify_event ==
    /\ loop = 0
    /\ inq # <<>>
    /\ LET ievent == Head(inq)
           evt == vfs_file_monitor_translate_inotify_event(ievent.mask)
       IN  /\ inq' = Tail(inq)
           /\ IF mon[ievent.wd].alive
              THEN LET file_name == IF ievent.name # "" THEN ievent.name
                                    ELSE mon[ievent.wd].path
                       cbs == mon[ievent.wd].callbacks
                   IN  /\ \A i \in 1..Len(cbs) :
                              TakesMutex(cbs[i], evt, file_name) => mutex[cbs[i]] = "free"
                       /\ Commit(DispatchFrom(HState, cbs, 1, evt, file_name))
                       /\ hist' = [d \in DirIds |->
                                      IF d \in Range(cbs)
                                      THEN [hist[d] EXCEPT !.last =
                                               [evt |-> evt, name |-> file_name]]
                                      ELSE hist[d]]
              ELSE Commit(HState) /\ hist' = hist
    /\ UNCHANGED <<dir_map, mime_cb, task, thr, mutex, loop, disk, hidden_file,
                   diskOps, monitor_hash, mon, atVars, mime>>

\* ----------------------------------------------------------------- the disk

\* The kernel queues one event for the watch on the directory, if there is one.
Notify(mask, name) ==
    LET m == monitor_hash[realpath("a")] IN
    IF m = 0 THEN inq' = inq
    ELSE /\ Len(inq) < MaxQueue
         /\ inq' = Append(inq, [wd |-> m, mask |-> mask, name |-> name])

DiskUnchanged ==
    UNCHANGED <<dir, dir_map, mime_cb, change_notify_timeout, task, thr, mutex, loop,
                nextFile, hidden_file, monitor_hash, mon, emitted, atVars, mime>>

\* The dirs whose monitor is installed and whose scan is running.
InScanWindow(d) ==
    /\ dir[d].st = "live"
    /\ dir[d].monitor # 0
    /\ thr[d].pc \in {"hidden", "iter", "stat", "lock", "append"}

\* Another program creates, removes or writes a file of the directory.
DiskCreate(n) ==
    /\ diskOps < MaxDiskOps
    /\ n \notin disk
    /\ disk' = disk \cup {n}
    /\ diskOps' = diskOps + 1
    /\ Notify({IN_CREATE}, n)
    /\ hist' = [d \in DirIds |->
                   IF InScanWindow(d) THEN [hist[d] EXCEPT !.born = @ \cup {n}]
                   ELSE hist[d]]
    /\ DiskUnchanged

DiskDelete(n) ==
    /\ diskOps < MaxDiskOps
    /\ n \in disk
    /\ disk' = disk \ {n}
    /\ diskOps' = diskOps + 1
    /\ Notify({IN_DELETE}, n)
    /\ hist' = [d \in DirIds |->
                   IF InScanWindow(d) THEN [hist[d] EXCEPT !.gone = @ \cup {n}]
                   ELSE hist[d]]
    /\ DiskUnchanged

DiskModify(n) ==
    /\ diskOps < MaxDiskOps
    /\ n \in disk
    /\ disk' = disk
    /\ diskOps' = diskOps + 1
    /\ Notify({IN_MODIFY}, n)
    /\ hist' = hist
    /\ DiskUnchanged

\* The file system of the directory is unmounted: its files are gone, and the
\* event names no file (len = 0).
DiskUnmount ==
    /\ diskOps < MaxDiskOps
    /\ disk' = {}
    /\ diskOps' = diskOps + 1
    /\ Notify({IN_UNMOUNT}, "")
    /\ hist' = [d \in DirIds |->
                   IF InScanWindow(d) THEN [hist[d] EXCEPT !.gone = @ \cup disk]
                   ELSE hist[d]]
    /\ DiskUnchanged

\* The attributes of the directory itself are changed (len = 0).
\* The watched directory is renamed: the watch stays and the kernel queues
\* IN_MOVE_SELF with an empty name.
DiskMoveSelf ==
    /\ diskOps < MaxDiskOps
    /\ disk' = disk
    /\ diskOps' = diskOps + 1
    /\ Notify({IN_MOVE_SELF}, "")
    /\ hist' = hist
    /\ DiskUnchanged

DiskAttribSelf ==
    /\ diskOps < MaxDiskOps
    /\ disk' = disk
    /\ diskOps' = diskOps + 1
    /\ Notify({IN_ATTRIB}, "")
    /\ hist' = hist
    /\ DiskUnchanged

\* ------------------------------------------------------- vfs::async_thread
MaxRuns == 2        \* calls of run() on one async_thread
MaxSteps == 2       \* units of work of the task function

AsyncUnchanged == UNCHANGED <<dirVars, mime>>

\* vfs::async_thread::run(), up to the join: return if running_, else set the
\* flags and start the task function on thread_.
async_thread_run ==
    /\ atc.run = "idle"
    /\ atc.runs < MaxRuns
    /\ IF at.running_
       THEN /\ at' = at
            /\ atc' = [atc EXCEPT !.runs = @ + 1]
       ELSE /\ at' = [at EXCEPT !.running_ = TRUE, !.finished_ = FALSE,
                                !.canceled_ = FALSE, !.joinable = TRUE,
                                !.fn = "running"]
            /\ atc' = [atc EXCEPT !.run = "join", !.runs = @ + 1, !.finish = <<>>,
                                  !.in_flight = FALSE, !.steps = 0]
    /\ AsyncUnchanged

\* The task function on its thread: a loop that tests is_canceled() before
\* each unit of work (as the directory scan does).
async_thread_task_step ==
    /\ at.fn = "running"
    /\ ~at.cancel_
    /\ atc.steps < MaxSteps
    /\ atc' = [atc EXCEPT !.steps = @ + 1]
    /\ at' = at
    /\ AsyncUnchanged

\* The task function returns: its work is done, or it has seen the cancel.
async_thread_task_function ==
    /\ at.fn = "running"
    /\ at.cancel_ \/ atc.steps = MaxSteps
    /\ at' = [at EXCEPT !.fn = "done"]
    /\ atc' = atc
    /\ AsyncUnchanged

\* run(): thread_.join() returns; running_ = false, finished_ = true and
\* run_event<task_finish>(canceled_).
async_thread_run_joined ==
    /\ atc.run = "join"
    /\ at.fn = "done"
    /\ at' = [at EXCEPT !.joinable = FALSE, !.running_ = FALSE, !.finished_ = TRUE]
    /\ atc' = [atc EXCEPT !.run = "idle", !.finish = Append(@, at.canceled_)]
    /\ AsyncUnchanged

\* run(): the join fails because cancel() has joined thread_ meanwhile
\* (std::system_error leaves run()).
async_thread_run_join_throws ==
    /\ atc.run = "join"
    /\ at.fn = "done"
    /\ ~at.joinable
    /\ atc' = [atc EXCEPT !.run = "idle"]
    /\ at' = at
    /\ AsyncUnchanged

\* vfs::async_thread::cancel() called by another thread during a run: thread_
\* is joinable, so cancel_ = true and cleanup(false) is entered.
async_thread_cancel ==
    /\ atc.cancel = "idle"
    /\ at.joinable
    /\ at' = [at EXCEPT !.cancel_ = TRUE]
    /\ atc' = [atc EXCEPT !.cancel = "cleanup",
                          !.in_flight = @ \/ at.fn = "running"]
    /\ AsyncUnchanged

\* cleanup(false): return if thread_ is not joinable (cancel() then sets
\* canceled_), else join it.
async_thread_cleanup ==
    /\ atc.cancel = "cleanup"
    /\ IF at.joinable
       THEN /\ atc' = [atc EXCEPT !.cancel = "join"]
            /\ at' = at
       ELSE /\ atc' = [atc EXCEPT !.cancel = "idle"]
            /\ at' = [at EXCEPT !.canceled_ = TRUE]
    /\ AsyncUnchanged

\* cleanup(false): the join returns; finished_ = true and
\* run_event<task_finish>(canceled_); back in cancel(), canceled_ = true.
async_thread_cleanup_joined ==
    /\ atc.cancel = "join"
    /\ at.fn = "done"
    /\ at' = [at EXCEPT !.joinable = FALSE, !.finished_ = TRUE, !.canceled_ = TRUE]
    /\ atc' = [atc EXCEPT !.cancel = "idle", !.finish = Append(@, at.canceled_)]
    /\ AsyncUnchanged

\* cleanup(false): the join fails because run() has joined thread_ meanwhile
\* (std::system_error leaves cancel()).
async_thread_cleanup_join_throws ==
    /\ atc.cancel = "join"
    /\ at.fn = "done"
    /\ ~at.joinable
    /\ atc' = [atc EXCEPT !.cancel = "idle"]
    /\ at' = at
    /\ AsyncUnchanged

\* vfs::async_thread::is_canceled()
is_canceled == at.cancel_

\* ------------------------------------------------------------ vfs-mime-type
MaxMime == 3        \* VFSMimeType objects constructed in one run
MaxReloads == 1     \* reloads of the MIME database in one run

TypeNames == {"t", "u"}
MimeIds == 1..MaxMime
MimeThreads == 1..2

\* A type pointer: own = 0 is a string of the MIME database, own = o is the
\* strdup'ed mime_type->type of object o. mime_map is a
\* std::map<const char*, VFSMimeType*>: its keys are compared as pointers, and
\* the key of an object is its own type string, so the map is the set of the
\* objects it holds.
TypePtr(own, str) == [own |-> own, str |-> str]

MimeFree == [st |-> "free", type |-> "", n_ref |-> 0]

\* A caller of vfs_mime_type_get_from_type: where it is, its argument, its
\* local mime_type, and the object its last call returned (ghost).
CallIdle == [pc |-> "idle", type |-> TypePtr(0, ""), mime_type |-> 0, got |-> 0]

\* vfs-mime-type.cxx as loaded: mime_map empty, no reload pending; held: the
\* references the callers hold on each object (ghost).
MimeInit == [objs |-> [o \in MimeIds |-> MimeFree],
             map |-> {},
             call |-> [t \in MimeThreads |-> CallIdle],
             held |-> [o \in MimeIds |-> 0],
             reload_callback_id |-> FALSE,
             reloads |-> 0,
             use_after_free |-> FALSE]

MimeUnchanged == UNCHANGED <<dirVars, atVars>>

\* The objects of a set with their fresh object ids.
FreshMime == IF \E o \in MimeIds : mime.objs[o].st = "free"
             THEN Min({o \in MimeIds : mime.objs[o].st = "free"}) ELSE 0

\* vfs_mime_type_unref on the objects: n_ref - 1, and the object is freed at 0.
vfs_mime_type_unref(objs, o) ==
    [objs EXCEPT ![o] = IF @.n_ref = 1
                        THEN [@ EXCEPT !.n_ref = 0, !.st = "freed"]
                        ELSE [@ EXCEPT !.n_ref = @ - 1]]

\* vfs_mime_type_get_from_type(type), first part: mime_map.at(type) under
\* mime_map_lock. The argument is a string of the MIME database or the type
\* string of an object the caller holds.
get_from_type_lookup(t, type) ==
    /\ mime.call[t].pc = "idle"
    /\ \/ type.own = 0 /\ type.str \in TypeNames
       \/ /\ type.own \in MimeIds
          /\ mime.held[type.own] > 0
          /\ type.str = mime.objs[type.own].type
    /\ mime' = [mime EXCEPT !.call[t] = [pc |-> "looked", type |-> type,
                                          mime_type |-> IF type.own \in mime.map
                                                        THEN type.own ELSE 0,
                                          got |-> 0]]
    /\ MimeUnchanged

\* second part, nothing found: vfs_mime_type_new(type) and the insert under
\* mime_map_lock with the new object's own type string as the key.
get_from_type_insert(t) ==
    /\ mime.call[t].pc = "looked"
    /\ mime.call[t].mime_type = 0
    /\ FreshMime # 0
    /\ mime' = [mime EXCEPT !.objs[FreshMime] = [st |-> "live",
                                                 type |-> mime.call[t].type.str,
                                                 n_ref |-> 1],
                            !.map = @ \cup {FreshMime},
                            !.call[t].pc = "made",
                            !.call[t].mime_type = FreshMime]
    /\ MimeUnchanged

\* last part: vfs_mime_type_ref(mime_type) and return. The object found by
\* the lookup may have been freed by a reload in between.
get_from_type_ref(t) ==
    /\ \/ mime.call[t].pc = "made"
       \/ mime.call[t].pc = "looked" /\ mime.call[t].mime_type # 0
    /\ mime.held[mime.call[t].mime_type] < MaxRefs
    /\ LET o == mime.call[t].mime_type IN
       IF mime.objs[o].st = "live"
       THEN mime' = [mime EXCEPT !.objs[o].n_ref = @ + 1,
                                 !.held[o] = @ + 1,
                                 !.call[t] = [CallIdle EXCEPT !.got = o]]
       ELSE mime' = [mime EXCEPT !.use_after_free = TRUE,
                                 !.call[t] = [CallIdle EXCEPT !.got = o]]
    /\ MimeUnchanged

\* A caller drops a reference it holds: vfs_mime_type_unref.
mime_type_release(o) ==
    /\ mime.held[o] > 0
    /\ \A t \in MimeThreads : mime.call[t].type.own # o
    /\ mime' = [mime EXCEPT !.objs = vfs_mime_type_unref(@, o),
                            !.held[o] = @ - 1]
    /\ MimeUnchanged

\* on_mime_cache_changed(monitor, event, file_name): a monitored MIME cache
\* file was created, deleted or changed.
on_mime_cache_changed(event) ==
    /\ mime.reloads < MaxReloads
    /\ event \in {"CREATE", "DELETE", "CHANGE"}
    /\ ~mime.reload_callback_id
    /\ mime' = [mime EXCEPT !.reload_callback_id = TRUE]
    /\ MimeUnchanged

\* The objects of mime_map in the order of iteration, unreferenced one by one.
RECURSIVE UnrefAll(_, _)
UnrefAll(objs, os) ==
    IF os = {} THEN objs
    ELSE UnrefAll(vfs_mime_type_unref(objs, Min(os)), os \ {Min(os)})

\* vfs_mime_type_reload, the idle callback: unref and drop every object of
\* mime_map, remove the idle source, regenerate the caches. It does not walk
\* reload_cb.
vfs_mime_type_reload ==
    /\ loop = 0
    /\ mime.reload_callback_id
    /\ mime' = [mime EXCEPT !.objs = UnrefAll(@, mime.map),
                            !.map = {},
                            !.reload_callback_id = FALSE,
                            !.reloads = @ + 1]
    /\ MimeUnchanged

\* ------------------------------------------------------ the specifications

\* A vfs::async_thread as its constructor leaves it: the flags, whether
\* thread_ is joinable, and where its task function is.
AtInit == [running_ |-> FALSE, finished_ |-> FALSE, cancel_ |-> FALSE,
           canceled_ |-> FALSE, joinable |-> FALSE, fn |-> "none"]

\* The thread that calls run(), the thread that calls cancel(), the task_finish
\* signals of the current run, the runs so far, and whether cancel() was
\* called in this run while the task function was running.
AtcInit == [run |-> "idle", cancel |-> "idle", finish |-> <<>>, runs |-> 0,
            in_flight |-> FALSE, steps |-> 0]

\* What every run starts from.
Boot ==
    /\ mime_cb \in BOOLEAN
    /\ change_notify_timeout = FALSE
    /\ mutex = [d \in DirIds |-> "free"]
    /\ loop = 0
    /\ nextFile = 1
    /\ diskOps = 0
    /\ monitor_hash = [r \in RealPaths |-> 0]
    /\ mon = [m \in MonIds |-> MonFree]
    /\ inq = <<>>
    /\ emitted = <<>>
    /\ at = AtInit
    /\ atc = AtcInit
    /\ mime = MimeInit

\* The cache: no dir yet, a directory that no other program changes.
Init ==
    /\ Boot
    /\ mime_cb = FALSE
    /\ dir = [d \in DirIds |-> DirFree]
    /\ dir_map = [k \in {} |-> 0]
    /\ task = [d \in DirIds |-> TaskNone]
    /\ thr = [d \in DirIds |-> ThrNone]
    /\ hist = [d \in DirIds |-> HistNone]
    /\ disk = {"x"}
    /\ hidden_file = <<>>

Next ==
    \/ \E ptr \in LivePtrs, avoid \in BOOLEAN : vfs_dir_get_by_path(ptr, avoid)
    \/ \E ptr \in LivePtrs : vfs_dir_get_by_path_soft(ptr)
    \/ \E d \in DirIds : Unref(d)
    \/ \E d \in DirIds : FinalizeJoined(d)
    \/ \E d \in DirIds, ok \in BOOLEAN : LoadThread_Install(d, ok)
    \/ \E d \in DirIds : LoadThread_Open(d)
    \/ \E d \in DirIds : LoadThread_Cancelled(d)
    \/ \E d \in DirIds, n \in Names : LoadThread_Entry(d, n)
    \/ \E d \in DirIds : LoadThread_End(d)
    \/ \E d \in DirIds : LoadThread_Stat(d)
    \/ \E d \in DirIds : LoadThread_Lock(d)
    \/ \E d \in DirIds : LoadThread_Append(d)
    \/ \E d \in DirIds : TaskFinish(d)

Spec == Init /\ [][Next]_vars

\* One dir and its directory: the state in which the first
\* vfs_dir_get_by_path(path) returns, for every path, volume answer, directory
\* content and .hidden file.
InitScan ==
    /\ Boot
    /\ mime_cb = TRUE
    /\ \E p \in Paths, avoid \in BOOLEAN :
          /\ dir = [d \in DirIds |-> IF d = 1
                                     THEN [vfs_dir_new(p, avoid) EXCEPT !.task = TRUE]
                                     ELSE DirFree]
          /\ dir_map = [k \in {[own |-> 1, str |-> p]} |-> 1]
    /\ task = [d \in DirIds |-> IF d = 1
                                THEN [state |-> "running", cancel |-> FALSE,
                                      connected |-> TRUE]
                                ELSE TaskNone]
    /\ thr = [d \in DirIds |-> IF d = 1 THEN [ThrNone EXCEPT !.pc = "begin"] ELSE ThrNone]
    /\ hist = [d \in DirIds |-> IF d = 1
                                THEN [HistNone EXCEPT !.tasks = 1, !.runs = 1]
                                ELSE HistNone]
    /\ disk \in SUBSET Names
    /\ hidden_file \in {<<>>, <<"xy">>}

NextScan ==
    \/ \E d \in DirIds : Unref(d)
    \/ \E d \in DirIds : FinalizeJoined(d)
    \/ \E d \in DirIds, ok \in BOOLEAN : LoadThread_Install(d, ok)
    \/ \E d \in DirIds : LoadThread_Open(d)
    \/ \E d \in DirIds : LoadThread_Cancelled(d)
    \/ \E d \in DirIds, n \in Names : LoadThread_Entry(d, n)
    \/ \E d \in DirIds : LoadThread_End(d)
    \/ \E d \in DirIds : LoadThread_Stat(d)
    \/ \E d \in DirIds : LoadThread_Lock(d)
    \/ \E d \in DirIds : LoadThread_Append(d)
    \/ \E d \in DirIds : TaskFinish(d)
    \/ vfs_file_monitor_on_inotify_event
    \/ notify_file_change
    \/ \E n \in Names : DiskCreate(n)
    \/ \E n \in Names : DiskDelete(n)
    \/ \E n \in Names : DiskModify(n)

SpecScan == InitScan /\ [][NextScan]_vars

\* One dir after its scan: the state in which on_list_task_finished returns
\* when nothing has happened to the directory during the scan, for every
\* path, volume answer and directory content (no .hidden file).
\* vfs_dir_emit_file_created(dir, dir->path, false), called on the event loop
\* by a holder of the dir (inotify has no creation event for the watched
\* directory itself).
CreatedSelf(d) ==
    /\ loop = 0
    /\ dir[d].st = "live"
    /\ Commit(vfs_dir_emit_file_created(HState, d, dir[d].path))
    /\ hist' = [hist EXCEPT ![d].last = [evt |-> "CREATE", name |-> dir[d].path]]
    /\ UNCHANGED <<dir_map, mime_cb, task, thr, mutex, loop, disk, hidden_file,
                   diskOps, monitor_hash, mon, inq, atVars, mime>>

\* update_created_files with a subscriber: g_signal_emit runs the handlers
\* of file-created before it returns, and the handler h calls
\* vfs_dir_emit_file_deleted(h.d, h.name) (which takes no lock for a name other
\* than the dir's path).
RECURSIVE CreatedFrom_subscribed(_, _, _, _, _)
CreatedFrom_subscribed(s, d, names, i, h) ==
    IF i > Len(names) THEN s
    ELSE LET file_found == vfs_dir_find_file(s.dir[d].file_list, names[i])
             file == [id |-> s.nf, name |-> names[i]]
             s2 == IF file_found.id = 0
                   THEN IF vfs_file_info_get(names[i])
                        THEN vfs_dir_emit_file_deleted(
                                 [s EXCEPT !.dir[d].file_list = Append(@, file),
                                           !.nf = @ + 1,
                                           !.em = Append(@, Sig("file-created", d, file.id, FALSE))],
                                 h.d, h.name)
                        ELSE s
                   ELSE LET u == update_file_info(s, d, file_found) IN
                        IF u.ret
                        THEN [u.s EXCEPT !.em =
                                 Append(@, Sig("file-changed", d, file_found.id, FALSE))]
                        ELSE u.s
         IN  CreatedFrom_subscribed(s2, d, names, i + 1, h)

update_created_files_subscribed(s, d, h) ==
    IF s.dir[d].created_files = <<>>
    THEN s
    ELSE [CreatedFrom_subscribed(s, d, s.dir[d].created_files, 1, h)
             EXCEPT !.dir[d].created_files = <<>>]

RECURSIVE ReconcileFrom_subscribed(_, _, _, _)
ReconcileFrom_subscribed(s, ds, i, h) ==
    IF i > Len(ds) THEN s
    ELSE ReconcileFrom_subscribed(
             update_created_files_subscribed(update_changed_files(s, ds[i]), ds[i], h),
             ds, i + 1, h)

\* notify_file_change while a subscriber of file-created is connected whose
\* handler calls vfs_dir_emit_file_deleted(d2, n), with n another name than
\* the dir's path.
notify_file_change_subscribed(d2, n) ==
    /\ loop = 0
    /\ change_notify_timeout
    /\ dir[d2].st = "live"
    /\ \A d \in LiveDirs :
          (dir[d].changed_files # <<>> \/ dir[d].created_files # <<>>) => mutex[d] = "free"
    /\ LET s == ReconcileFrom_subscribed(HState, MapDirs, 1, [d |-> d2, name |-> n]) IN
       /\ s.nf <= MaxFiles + 1
       /\ Commit([s EXCEPT !.tmo = FALSE])
       /\ hist' = [d \in DirIds |->
                      [hist[d] EXCEPT !.forced = {f \in @ : ~Signalled(s.em, d, f)},
                                      !.last = IF InMap(d)
                                               THEN [evt |-> "RECONCILE", name |-> ""]
                                               ELSE @]]
    /\ UNCHANGED <<dir_map, mime_cb, task, thr, mutex, loop, disk, hidden_file,
                   diskOps, monitor_hash, mon, inq, atVars, mime>>

InitListed ==
    /\ mime_cb = TRUE
    /\ change_notify_timeout = FALSE
    /\ mutex = [d \in DirIds |-> "free"]
    /\ loop = 0
    /\ diskOps = 0
    /\ inq = <<>>
    /\ at = AtInit
    /\ atc = AtcInit
    /\ mime = MimeInit
    /\ hidden_file = <<>>
    /\ disk \in SUBSET Names
    /\ LET names == SelectSeq(<<"x", "xy">>, LAMBDA n : n \in disk)
           fl == [i \in 1..Len(names) |-> [id |-> i, name |-> names[i]]]
       IN  /\ nextFile = Len(names) + 1
           /\ \E p \in Paths, avoid \in BOOLEAN :
                 /\ dir = [d \in DirIds |->
                              IF d = 1
                              THEN [vfs_dir_new(p, avoid) EXCEPT
                                       !.monitor = 1, !.file_list = fl,
                                       !.file_listed = TRUE, !.load_complete = TRUE]
                              ELSE DirFree]
                 /\ dir_map = [k \in {[own |-> 1, str |-> p]} |-> 1]
                 /\ mon = [m \in MonIds |->
                              IF m = 1
                              THEN [VFSFileMonitor_new(realpath(p)) EXCEPT
                                       !.callbacks = <<1>>]
                              ELSE MonFree]
                 /\ monitor_hash = [r \in RealPaths |-> IF r = realpath(p) THEN 1 ELSE 0]
           /\ thr = [d \in DirIds |->
                        IF d = 1
                        THEN [ThrNone EXCEPT !.pc = "done", !.snap = disk, !.visited = disk,
                                             !.cur = IF names = <<>> THEN ""
                                                     ELSE names[Len(names)]]
                        ELSE ThrNone]
    /\ task = [d \in DirIds |->
                  IF d = 1
                  THEN [state |-> "finished", cancel |-> FALSE, connected |-> TRUE]
                  ELSE TaskNone]
    /\ hist = [d \in DirIds |->
                  IF d = 1
                  THEN [HistNone EXCEPT !.tasks = 1, !.runs = 1, !.listed = 1,
                                        !.monitor_at_scan = "before_scan"]
                  ELSE HistNone]
    /\ emitted = <<Sig("file-listed", 1, 0, FALSE)>>

NextEvents ==
    \/ \E d \in DirIds : Unref(d)
    \/ vfs_file_monitor_on_inotify_event
    \/ notify_file_change
    \/ \E d \in DirIds, n \in Names : ForcedChange(d, n)
    \/ \E n \in Names : DiskCreate(n)
    \/ \E n \in Names : DiskDelete(n)
    \/ \E n \in Names : DiskModify(n)
    \/ DiskUnmount
    \/ DiskAttribSelf
    \/ DiskMoveSelf
    \/ \E d \in DirIds : CreatedSelf(d)

SpecEvents == InitListed /\ [][NextEvents]_vars

\* The same with a subscriber of file-created that calls back into the dir.
NextSubscribed ==
    \/ NextEvents
    \/ \E d2 \in DirIds, n \in Names : notify_file_change_subscribed(d2, n)

SpecSubscribed == InitListed /\ [][NextSubscribed]_vars

\* vfs_file_monitor_add as the load thread runs it, in two steps (the file
\* has no lock): first realpath and g_hash_table_lookup ...
LoadThread_Add_lookup(d) ==
    /\ thr[d].pc = "begin"
    /\ thr' = [thr EXCEPT ![d].pc = IF monitor_hash[realpath(dir[d].path)] # 0
                                    THEN "add_found" ELSE "add_new"]
    /\ UNCHANGED <<dir, task, mutex, nextFile, monitor_hash, mon, hist>>
    /\ ThreadUnchanged

\* ... then inotify_add_watch, new and g_hash_table_insert if nothing was
\* found, and the push_back of the callback entry. If the monitor that was
\* found has been deleted by vfs_file_monitor_remove in between, the
\* push_back writes to freed memory and the thread returns a dangling
\* pointer: the registry is left as it is and dir->monitor is any value.
LoadThread_Add_insert(d, watch_ok) ==
    /\ thr[d].pc \in {"add_found", "add_new"}
    /\ IF thr[d].pc = "add_found" /\ monitor_hash[realpath(dir[d].path)] = 0
       THEN /\ \E m \in MonIds \cup {0} :
                   dir' = [dir EXCEPT ![d].file_listed = FALSE, ![d].load_complete = FALSE,
                                      ![d].xhidden_count = 0, ![d].monitor = m]
            /\ UNCHANGED <<monitor_hash, mon>>
       ELSE LET r == MonitorAddResult(dir[d].path, d, watch_ok) IN
            /\ monitor_hash' = r.hash
            /\ mon' = r.mon
            /\ dir' = [dir EXCEPT ![d].file_listed = FALSE, ![d].load_complete = FALSE,
                                  ![d].xhidden_count = 0, ![d].monitor = r.ret]
    /\ thr' = [thr EXCEPT ![d].pc = "hidden"]
    /\ hist' = [hist EXCEPT ![d].monitor_at_scan = "called"]
    /\ UNCHANGED <<task, mutex, nextFile>>
    /\ ThreadUnchanged

\* A listed dir with its monitor, and the load threads of further dirs
\* installing theirs, while the event loop dispatches events and drops dirs.
NextRegistry ==
    \/ \E ptr \in LivePtrs, avoid \in BOOLEAN : vfs_dir_get_by_path(ptr, avoid)
    \/ \E d \in DirIds : Unref(d)
    \/ \E d \in DirIds : LoadThread_Add_lookup(d)
    \/ \E d \in DirIds, ok \in BOOLEAN : LoadThread_Add_insert(d, ok)
    \/ vfs_file_monitor_on_inotify_event
    \/ \E n \in Names : DiskCreate(n)
    \/ \E n \in Names : DiskDelete(n)

SpecRegistry == InitListed /\ [][NextRegistry]_vars

\* The callers of vfs_mime_type_get_from_type and the reload, beside a listed
\* dir.
NextMime ==
    \/ \E t \in MimeThreads, n \in TypeNames : get_from_type_lookup(t, TypePtr(0, n))
    \/ \E t \in MimeThreads, o \in MimeIds :
          get_from_type_lookup(t, TypePtr(o, mime.objs[o].type))
    \/ \E t \in MimeThreads : get_from_type_insert(t)
    \/ \E t \in MimeThreads : get_from_type_ref(t)
    \/ \E o \in MimeIds : mime_type_release(o)
    \/ \E e \in {"CREATE", "DELETE", "CHANGE"} : on_mime_cache_changed(e)
    \/ vfs_mime_type_reload

\* A dir opened by its real path that has listed both files.
InitMime ==
    /\ InitListed
    /\ disk = Names
    /\ dir[1].path = "a"
    /\ ~dir[1].avoid_changes

SpecMime == InitMime /\ [][NextMime]_vars

NextAsync ==
    \/ async_thread_run
    \/ async_thread_task_step
    \/ async_thread_task_function
    \/ async_thread_run_joined
    \/ async_thread_run_join_throws
    \/ async_thread_cancel
    \/ async_thread_cleanup
    \/ async_thread_cleanup_joined
    \/ async_thread_cleanup_join_throws

SpecAsync == Init /\ [][NextAsync]_vars

\* ---------------------------------------------------------------- claims

\* How often the name n is in the file_list of d.
Count(d, n) == Cardinality({i \in 1..Len(dir[d].file_list) : dir[d].file_list[i].name = n})

\* The dir is alive and listed, its monitor works, and nothing is pending for
\* it: no event unread, no entry waiting for the reconcile timer.
Quiescent(d) ==
    /\ dir[d].st = "live"
    /\ loop = 0
    /\ hist[d].listed = 1
    /\ dir[d].monitor # 0
    /\ mon[dir[d].monitor].alive
    /\ inq = <<>>
    /\ dir[d].created_files = <<>>
    /\ dir[d].changed_files = <<>>

\* C1: dir_map never holds two dirs for equal paths: two
\* vfs_dir_get_by_path calls for the same path, made while the first dir is
\* referenced, yield one instance (as stated; the code violates it).
C1_CacheUniqueness ==
    \A k1 \in DOMAIN dir_map, k2 \in DOMAIN dir_map :
        k1.str = k2.str => dir_map[k1] = dir_map[k2]

\* C2: every dir instance has its load task created and executed exactly once,
\* also after lookups that found it registered; and at every time at most one
\* load task is active for it.
C2_OneScanPerDir ==
    \A d \in DirIds :
        /\ hist[d].tasks <= 1
        /\ hist[d].runs <= 1
        /\ dir[d].st # "free" => hist[d].tasks = 1 /\ hist[d].runs = 1
        /\ dir[d].st = "free" => hist[d].tasks = 0 /\ thr[d].pc = "none"

C2_Witness ==
    \E d \in DirIds : dir[d].ref_count = 2 /\ thr[d].pc = "stat" /\ hist[d].runs = 1

\* C3: a dir is an entry of dir_map exactly when it has been constructed and
\* not finalized; its entry stays while a reference is held; the entry goes
\* only in the step that ends its finalization, with no reference left; and
\* an entry that appears is a freshly constructed dir whose scan starts.
C3_RegistryLifecycle ==
    /\ [](\A d \in DirIds :
            /\ InMap(d) <=> dir[d].st = "live"
            /\ dir[d].ref_count > 0 =>
                  PathPtr(d) \in DOMAIN dir_map /\ dir_map[PathPtr(d)] = d
            /\ dir[d].st = "dead" => dir[d].ref_count = 0)
    /\ [][\A d \in DirIds :
            /\ InMap(d) /\ ~InMap(d)' =>
                  dir[d].ref_count <= 1 /\ dir'[d].ref_count = 0 /\ dir'[d].st = "dead"
            /\ ~InMap(d) /\ InMap(d)' =>
                  /\ dir[d].st = "free"
                  /\ dir'[d].ref_count = 1
                  /\ dir'[d].file_list = <<>>
                  /\ task'[d].state = "running"
                  /\ thr'[d].pc = "begin"]_vars

\* A dir was finalized, and a later call for its path has constructed a new one.
C3_Witness ==
    \E d1 \in DirIds, d2 \in DirIds :
        /\ dir[d1].st = "dead"
        /\ dir[d2].st = "live"
        /\ dir[d1].path = dir[d2].path
        /\ ~InMap(d1)
        /\ InMap(d2)
        /\ thr[d2].pc = "iter"

\* C4: once the dir is listed and nothing is pending, every file that was
\* created on disk while the monitor was installed and the scan was running,
\* and that still exists, is in file_list exactly once (as stated; the code
\* violates it).
C4_NoMissedOrDuplicatedCreation ==
    \A d \in DirIds :
        Quiescent(d) => \A n \in hist[d].born \cap disk : Count(d, n) = 1

\* C5: once the dir is listed and nothing is pending, no file that was deleted
\* on disk while the monitor was installed and the scan was running, and that
\* does not exist, is in file_list (as stated; the code violates it).
C5_NoStaleEntryAfterDeletion ==
    \A d \in DirIds :
        Quiescent(d) => \A n \in hist[d].gone \ disk : Count(d, n) = 0

\* C6: whenever the load thread enumerates the directory (or is past it), its
\* vfs_file_monitor_add call was completed before the iterator was opened.
C6_MonitorBeforeScan ==
    \A d \in DirIds :
        thr[d].pc \in {"iter", "stat", "lock", "append", "done"} =>
            hist[d].monitor_at_scan = "before_scan"

C6_Witness ==
    \E d \in DirIds :
        /\ thr[d].pc = "stat"
        /\ dir[d].monitor # 0
        /\ d \in Range(mon[dir[d].monitor].callbacks)

\* C7: a dir that has registered its callback with a monitor and has not
\* removed it finds the monitor alive and its callback entry in it, whatever
\* other registrations of the same real path have been removed (as stated;
\* the code violates it).
C7_RegistrationsIndependent ==
    \A d \in DirIds :
        dir[d].st = "live" /\ dir[d].monitor # 0 =>
            /\ mon[dir[d].monitor].alive
            /\ d \in Range(mon[dir[d].monitor].callbacks)

\* C8: when a run during which cancel() was called while the task function was
\* running is over, the finish signal has been delivered exactly once, with
\* was_cancelled = true (as stated; the code violates it).
C8_CancelledFinishOnce ==
    (atc.in_flight /\ atc.run = "idle" /\ atc.cancel = "idle" /\ at.fn = "done")
        => atc.finish = <<TRUE>>

\* C9: the thread that starts the task never waits for the task function: it
\* is never inside run() while the task function is running (as stated; the
\* code violates it).
C9_CallerNeverBlocked ==
    ~(atc.run = "join" /\ at.fn = "running")

Delivered(d) ==
    /\ inq # <<>>
    /\ inq' = Tail(inq)
    /\ mon[Head(inq).wd].alive
    /\ d \in Range(mon[Head(inq).wd].callbacks)

\* The event and the file name the callbacks are called with.
HeadEvt == vfs_file_monitor_translate_inotify_event(Head(inq).mask)

HeadName == IF Head(inq).name # "" THEN Head(inq).name ELSE mon[Head(inq).wd].path

\* The signal sig of dir d with payload id (0: null) is among em.
Emits(em, sig, d, id) == \E i \in 1..Len(em) : em[i] = Sig(sig, d, id, FALSE)

\* The signals of dir d among em.
SignalsOf(em, d) == SelectSeq(em, LAMBDA e : e.dir = d)

\* C11 (amended): when avoid_changes is false, a non-forced Changed event for
\* a name whose path no longer exists removes the entry that
\* vfs_dir_find_file finds for the name (the first one, not already pending)
\* from file_list, emits file-deleted for it and no file-changed for it.
C11_ChangedResolvesIntoDeletion ==
    [][\A d \in DirIds :
          (Delivered(d) /\ HeadEvt = "CHANGE" /\ HeadName # dir[d].path
              /\ ~dir[d].avoid_changes) =>
            LET f == vfs_dir_find_file(dir[d].file_list, HeadName) IN
            (f.id # 0 /\ HeadName \notin disk /\ ~Contains(dir[d].changed_files, f)) =>
                /\ ~Contains(dir'[d].file_list, f)
                /\ Emits(emitted', "file-deleted", d, f.id)
                /\ ~Emits(emitted', "file-changed", d, f.id)]_vars

\* C11 as stated: the same for every entry of that name and every value of
\* avoid_changes.
C11_AsStated ==
    [][\A d \in DirIds :
          (Delivered(d) /\ HeadEvt = "CHANGE" /\ HeadName # dir[d].path) =>
            \A i \in 1..Len(dir[d].file_list) :
               LET f == dir[d].file_list[i] IN
               (f.name = HeadName /\ HeadName \notin disk
                   /\ ~Contains(dir[d].changed_files, f)) =>
                   /\ ~Contains(dir'[d].file_list, f)
                   /\ Emits(emitted', "file-deleted", d, f.id)
                   /\ ~Emits(emitted', "file-changed", d, f.id)]_vars

\* A Changed event for a vanished file has just removed its entry.
C11_Witness ==
    \E d \in DirIds, n \in Names :
        /\ dir[d].st = "live"
        /\ ~dir[d].avoid_changes
        /\ hist[d].last = [evt |-> "CHANGE", name |-> n]
        /\ n \notin disk
        /\ Len(emitted) = 1
        /\ emitted[1].sig = "file-deleted"
        /\ emitted[1].file # 0
        /\ Count(d, n) = 0

\* C12: a Deleted event whose name is the dir's own path leaves file_list
\* empty, and the dir emits exactly one signal in that step: file-deleted with
\* a null payload; whatever file_list held before.
C12_SelfPathDeletionClears ==
    [][\A d \in DirIds :
          (Delivered(d) /\ HeadEvt = "DELETE" /\ HeadName = dir[d].path) =>
              /\ dir'[d].file_list = <<>>
              /\ SignalsOf(emitted', d) = <<Sig("file-deleted", d, 0, FALSE)>>]_vars

\* The directory of a listed dir with two entries, one of them pending, was
\* unmounted (the only change on disk), and the event has cleared file_list.
C12_Witness ==
    \E d \in DirIds :
        /\ dir[d].st = "live"
        /\ hist[d].last = [evt |-> "DELETE", name |-> dir[d].path]
        /\ diskOps = 1
        /\ nextFile = 3
        /\ dir[d].changed_files # <<>>
        /\ dir[d].file_list = <<>>
        /\ emitted = <<Sig("file-deleted", d, 0, FALSE)>>

\* C13: with avoid_changes true, a non-forced Changed event for a name that
\* has an entry leaves the dir as it is (file_list, changed_files,
\* created_files; an entry whose file has vanished stays, so no re-stat took
\* place), emits no signal and leaves the reconcile timer as it is.
C13_AvoidChangesSuppression ==
    [][\A d \in DirIds :
          (Delivered(d) /\ HeadEvt = "CHANGE" /\ dir[d].avoid_changes
              /\ vfs_dir_find_file(dir[d].file_list, HeadName).id # 0) =>
              /\ dir'[d] = dir[d]
              /\ SignalsOf(emitted', d) = <<>>
              /\ change_notify_timeout' = change_notify_timeout]_vars

\* A Changed event for an entry whose file has vanished was suppressed.
C13_Witness ==
    \E d \in DirIds, n \in Names :
        /\ dir[d].st = "live"
        /\ dir[d].avoid_changes
        /\ hist[d].last = [evt |-> "CHANGE", name |-> n]
        /\ n \notin disk
        /\ Count(d, n) = 1
        /\ emitted = <<>>
        /\ ~change_notify_timeout

C15_IdempotentReconciliation ==
    \A d \in DirIds, n \in Names :
        (dir[d].st = "live" /\ thr[d].pc = "done") => Count(d, n) <= 1

\* The names of the entries of file_list.
ListedNames(d) == {dir[d].file_list[i].name : i \in 1..Len(dir[d].file_list)}

\* C16 as stated: after an uncancelled scan of a directory that nothing has
\* changed, file_list holds the enumerated names that are not a line of
\* .hidden, each once, and xhidden_count is the number of enumerated names
\* that are a line of .hidden (the code violates it: a name that is a
\* substring of the text of .hidden is omitted as well).
C16_HiddenSuppressionByName ==
    \A d \in DirIds :
        (dir[d].st = "live" /\ thr[d].pc = "done" /\ ~task[d].cancel /\ diskOps = 0) =>
            /\ ListedNames(d) = thr[d].visited \ Range(hidden_file)
            /\ \A n \in ListedNames(d) : Count(d, n) = 1
            /\ dir[d].xhidden_count = Cardinality(thr[d].visited \cap Range(hidden_file))

\* C17: a dir whose last reference has been released emits no signal; once it
\* is finalized its task, if it had one, is cancelled and disconnected, the
\* dir is in no monitor's callbacks and not in dir_map, a dir destroyed
\* with its task pending has emitted no file-listed, and no step enters it
\* again (no monitor callback, no reconcile) or changes it.
C17_DestructionDuringLoad ==
    /\ [](\A d \in DirIds :
            /\ (dir[d].st # "free" /\ dir[d].ref_count = 0) => SignalsOf(emitted, d) = <<>>
            /\ dir[d].st = "dead" =>
                  /\ ~InMap(d)
                  /\ \A m \in MonIds : d \notin Range(mon[m].callbacks)
                  /\ task[d].state = "freed" =>
                        task[d].cancel /\ ~task[d].connected /\ hist[d].listed = 0)
    /\ [][\A d \in DirIds :
            dir[d].st = "dead" =>
                /\ dir'[d] = dir[d]
                /\ hist'[d].last = hist[d].last
                /\ hist'[d].listed = hist[d].listed]_vars

\* A dir was destroyed while its scan was under way (the enumeration was cut
\* short) and after events had been dispatched to it; an event is still unread.
C17_Witness ==
    \E d \in DirIds :
        /\ dir[d].st = "dead"
        /\ task[d].state = "freed"
        /\ task[d].cancel
        /\ (thr[d].snap \cap disk) \ thr[d].visited # {}
        /\ hist[d].last.evt # "none"
        /\ inq # <<>>

\* vfs_file_monitor_add has returned nullptr to the load thread of d.
MonitorFailed(d) ==
    /\ dir[d].st = "live"
    /\ hist[d].monitor_at_scan # "unset"
    /\ dir[d].monitor = 0

\* C18: a dir whose monitor could not be installed is in no monitor's
\* callbacks and no monitor event is ever dispatched to it; its scan
\* enumerates the directory all the same (undisturbed and uncancelled, it
\* lists every name that ishidden does not suppress), and when the task's
\* finish has been delivered the dir is listed, with one file-listed emitted;
\* and its finalization leaves the monitor registry as it is.
C18_DegradedMode ==
    /\ [](\A d \in DirIds :
            MonitorFailed(d) =>
                /\ \A m \in MonIds : d \notin Range(mon[m].callbacks)
                /\ hist[d].last.evt \notin {"CREATE", "DELETE", "CHANGE"}
                /\ (thr[d].pc = "done" /\ ~task[d].cancel /\ diskOps = 0) =>
                      ListedNames(d) =
                          {n \in disk : ~ishidden(gethidden(hidden_file), n)}
                /\ task[d].state = "finished" =>
                      dir[d].file_listed /\ dir[d].load_complete /\ hist[d].listed = 1)
    /\ [][\A d \in DirIds :
            (MonitorFailed(d) /\ dir'[d].st = "dead") =>
                mon' = mon /\ monitor_hash' = monitor_hash]_vars

\* The monitor could not be installed, and the dir is listed with an entry.
C18_Witness ==
    \E d \in DirIds :
        /\ MonitorFailed(d)
        /\ hist[d].listed = 1
        /\ dir[d].file_listed
        /\ dir[d].file_list # <<>>
        /\ emitted = <<Sig("file-listed", d, 0, FALSE)>>

\* C19: the last event dispatched to a live dir being a Changed event whose
\* name is the dir's own path, the dir has emitted exactly one file-changed
\* with no payload, whatever avoid_changes is (events are not forced).
C19_SelfPathChanged ==
    \A d \in DirIds :
        (dir[d].st = "live" /\ hist[d].last = [evt |-> "CHANGE", name |-> dir[d].path]) =>
            emitted = <<Sig("file-changed", d, 0, FALSE)>>

\* The step is an event-loop step that reads or writes dir->file_list: the
\* dispatch of a Deleted event (vfs_dir_find_file, or the clearing of the
\* list for the dir's own path), of a Changed event that is neither
\* suppressed nor for the dir's own path (vfs_dir_find_file), or the
\* reconcile timer with something pending for the dir.
AccessesFileList(d) ==
    \/ /\ Delivered(d)
       /\ \/ HeadEvt = "DELETE"
          \/ HeadEvt = "CHANGE" /\ ~dir[d].avoid_changes /\ HeadName # dir[d].path
    \/ /\ change_notify_timeout
       /\ ~change_notify_timeout'
       /\ InMap(d)
       /\ dir[d].changed_files # <<>> \/ dir[d].created_files # <<>>

\* C20: no event-loop step that reads or writes a dir's file_list is taken
\* while the scan thread holds that dir's mutex.
C20_SingleMutexDiscipline ==
    [][\A d \in DirIds : AccessesFileList(d) => mutex[d] = "free"]_vars

\* The step is notify_file_change reconciling the dir d of dir_map.
Reconciles(d) ==
    /\ change_notify_timeout
    /\ ~change_notify_timeout'
    /\ InMap(d)
    /\ dir'[d].st = "live"

\* The step is the dispatch to d of a Deleted event for another name than the
\* dir's own path.
DeletedEvent(d) == Delivered(d) /\ HeadEvt = "DELETE" /\ HeadName # dir[d].path

C22_CreatedSelfPathIgnored ==
    /\ [](\A d \in DirIds :
            dir[d].st = "live" =>
                vfs_dir_emit_file_created(HState, d, dir[d].path) = HState)
    /\ [][\A d \in DirIds :
            (\/ Delivered(d) /\ HeadEvt = "CREATE" /\ HeadName = dir[d].path
             \/ /\ hist'[d].last = [evt |-> "CREATE", name |-> dir[d].path]
                /\ hist'[d].last # hist[d].last) =>
                /\ dir'[d] = dir[d]
                /\ change_notify_timeout' = change_notify_timeout
                /\ nextFile' = nextFile
                /\ emitted' = <<>>]_vars

\* The last entry into the dir was a Created event for its own path; the
\* entries that were pending are still pending, and the timer is armed.
C22_Witness ==
    \E d \in DirIds :
        /\ dir[d].st = "live"
        /\ hist[d].last = [evt |-> "CREATE", name |-> dir[d].path]
        /\ dir[d].created_files # <<>>
        /\ dir[d].changed_files # <<>>
        /\ dir[d].file_list # <<>>
        /\ change_notify_timeout
        /\ emitted = <<>>

\* C23: when the dispatch of a Created, Deleted or Changed event to a dir
\* returns, the dir's created_files and changed_files are empty and the
\* reconcile timer is not armed (nothing waits for a timer).
C23_ReconciledAfterEachEvent ==
    [][\A d \in DirIds :
          (Delivered(d) /\ HeadEvt \in {"CREATE", "DELETE", "CHANGE"}) =>
              /\ dir'[d].created_files = <<>>
              /\ dir'[d].changed_files = <<>>
              /\ ~change_notify_timeout']_vars

\* C24: whenever the event loop is idle and a dir of dir_map has a non-empty
\* created_files or changed_files, the reconcile timer is armed; also when a
\* signal handler that ran during a reconcile pass enqueued the entry.
C24_PendingImpliesTimer ==
    loop = 0 =>
        \A d \in DirIds :
            (InMap(d) /\ (dir[d].created_files # <<>> \/ dir[d].changed_files # <<>>)) =>
                change_notify_timeout

\* C25: one file of the directory was modified (the only change on disk), the
\* last entry into the dir was its Changed event, whose handler emitted
\* file-changed for the entry, and no event is waiting: the reconcile pass
\* that follows emits no second file-changed for that entry.
C25_OneChangeOneSignal ==
    [][\A d \in DirIds :
          (Reconciles(d) /\ ~dir[d].avoid_changes /\ diskOps = 1 /\ inq = <<>>) =>
              \A f \in Range(dir[d].file_list) :
                  (/\ hist[d].last = [evt |-> "CHANGE", name |-> f.name]
                   /\ emitted = <<Sig("file-changed", d, f.id, FALSE)>>
                   /\ f.name \in disk) =>
                      ~Emits(emitted', "file-changed", d, f.id)]_vars

\* C26: the dispatch of a Deleted event with an empty name (the watched
\* directory itself is gone) leaves every dir of the monitor's callbacks with
\* an empty file_list, each having emitted exactly file-deleted with a null
\* payload; whatever path the dir was opened by.
C26_SelfDeletionThroughSymlink ==
    [][\A d \in DirIds :
          (Delivered(d) /\ HeadEvt = "DELETE" /\ Head(inq).name = "") =>
              /\ dir'[d].file_list = <<>>
              /\ SignalsOf(emitted', d) = <<Sig("file-deleted", d, 0, FALSE)>>]_vars

\* The names of the entries that dir d emitted file-created for, in the order
\* of emission; fl is the file_list that holds them.
CreatedNames(em, d, fl) ==
    LET sigs == SelectSeq(em, LAMBDA e : e.dir = d /\ e.sig = "file-created") IN
    [i \in 1..Len(sigs) |->
        (CHOOSE k \in 1..Len(fl) : fl[k].id = sigs[i].file) ]

\* a can be had from b by leaving entries out.
IsSubseq(a, b) ==
    \E g \in [1..Len(a) -> 1..Len(b)] :
        /\ \A i, j \in 1..Len(a) : i < j => g[i] < g[j]
        /\ \A i \in 1..Len(a) : b[g[i]] = a[i]

\* The position in em of the first file-changed or file-deleted of dir d for
\* the entry (0: none).
FirstSignal(em, d, file) ==
    LET at_ == {i \in 1..Len(em) : /\ em[i].dir = d
                                   /\ em[i].file = file.id
                                   /\ em[i].sig \in {"file-changed", "file-deleted"}}
    IN  IF at_ = {} THEN 0 ELSE CHOOSE i \in at_ : \A j \in at_ : i <= j

\* C27: in a reconcile pass the file-created signals of a dir come in the
\* order of created_files (the order the Created events were received in),
\* and of two entries of changed_files that the pass signals (file-changed or
\* file-deleted) the one enqueued first is signalled first.
C27_SignalsInReconcileOrder ==
    [][\A d \in DirIds :
          Reconciles(d) =>
              /\ LET fl == dir'[d].file_list
                     created == CreatedNames(emitted', d, fl)
                 IN  IsSubseq([i \in 1..Len(created) |-> fl[created[i]].name],
                              dir[d].created_files)
              /\ \A i, j \in 1..Len(dir[d].changed_files) :
                    LET si == FirstSignal(emitted', d, dir[d].changed_files[i])
                        sj == FirstSignal(emitted', d, dir[d].changed_files[j])
                    IN  (i < j /\ si # 0 /\ sj # 0) => si < sj]_vars

\* A reconcile pass has emitted file-created for "xy" and then for "x", the
\* order their files were created in.
C27_Witness ==
    \E d \in DirIds :
        /\ dir[d].st = "live"
        /\ hist[d].last = [evt |-> "RECONCILE", name |-> ""]
        /\ Len(emitted) = 2
        /\ emitted[1].sig = "file-created" /\ emitted[2].sig = "file-created"
        /\ Len(dir[d].file_list) = 2
        /\ dir[d].file_list[1] = [id |-> emitted[1].file, name |-> "xy"]
        /\ dir[d].file_list[2] = [id |-> emitted[2].file, name |-> "x"]

\* The objects of mime_map whose type is the name.
MimeOfType(n) == {o \in mime.map : mime.objs[o].type = n}

\* C28: mime_map holds at most one object of every MIME type name; and two
\* callers whose calls for the same name have returned, with no reload in the
\* run, have got the same object.
C28_MimeTypesShared ==
    /\ \A n \in TypeNames : Cardinality(MimeOfType(n)) <= 1
    /\ \A t1, t2 \in MimeThreads :
          LET o1 == mime.call[t1].got
              o2 == mime.call[t2].got
          IN  (/\ mime.reloads = 0 /\ ~mime.reload_callback_id
               /\ o1 # 0 /\ o2 # 0
               /\ mime.objs[o1].type = mime.objs[o2].type) => o1 = o2

\* C29: the step in which the reload of the MIME database runs emits one
\* file-changed for every file of every dir of dir_map (the reload callback
\* of vfs-dir.cxx is registered).
C29_MimeReloadReachesDirs ==
    [][(mime.reload_callback_id /\ ~mime'.reload_callback_id /\ mime_cb) =>
          \A d \in DirIds :
              InMap(d) =>
                  \A f \in Range(dir[d].file_list) :
                      Emits(emitted', "file-changed", d, f.id)]_vars

\* C30: the event kind the callbacks are called with is "CREATE" if the mask
\* has IN_CREATE or IN_MOVED_TO, else "DELETE" if it has IN_DELETE,
\* IN_MOVED_FROM, IN_DELETE_SELF or IN_UNMOUNT, else "CHANGE" if it has
\* IN_MODIFY or IN_ATTRIB, else a kind of its own, and an event of that last
\* kind leaves the dir as it is and emits nothing.
C30_EventTranslation ==
    [][\A d \in DirIds :
          Delivered(d) =>
              LET mask == Head(inq).mask IN
              IF mask \cap {IN_CREATE, IN_MOVED_TO} # {} THEN HeadEvt = "CREATE"
              ELSE IF mask \cap {IN_DELETE, IN_MOVED_FROM, IN_DELETE_SELF, IN_UNMOUNT} # {}
              THEN HeadEvt = "DELETE"
              ELSE IF mask \cap {IN_MODIFY, IN_ATTRIB} # {} THEN HeadEvt = "CHANGE"
              ELSE /\ HeadEvt \notin {"CREATE", "DELETE", "CHANGE"}
                   /\ dir'[d] = dir[d]
                   /\ SignalsOf(emitted', d) = <<>>]_vars

\* C31: when the handlers of file-listed ran, vfs_dir_is_file_listed(dir)
\* returned true and dir->task was null.
C31_ListedFlagSetWhenTold ==
    \A d \in DirIds :
        hist[d].listed > 0 =>
            hist[d].handler_saw.file_listed /\ ~hist[d].handler_saw.task

\* A load thread is inside vfs_file_monitor_add.
InMonitorAdd(d) == thr[d].pc \in {"add_found", "add_new"}

\* The step is the event loop reading or writing the monitor registry: the
\* lookup and dispatch of an inotify event, or vfs_file_monitor_remove.
LoopRegistryStep ==
    \/ inq # <<>> /\ inq' = Tail(inq)
    \/ thr' = thr /\ (mon' # mon \/ monitor_hash' # monitor_hash)

\* C32: the event loop takes no step that reads or writes monitor_hash or a
\* monitor's callbacks while a load thread is inside vfs_file_monitor_add.
C32_RegistryConfined ==
    [][(\E d \in DirIds : InMonitorAdd(d)) => ~LoopRegistryStep]_vars

\* The entry occurs at most once in the list.
NoDuplicates(list) == \A i, j \in 1..Len(list) : list[i] = list[j] => i = j

\* The step is the dispatch to d of a Changed or Deleted event for a name
\* whose entry is pending in changed_files.
EventForPending(d) ==
    /\ Delivered(d)
    /\ HeadEvt \in {"CHANGE", "DELETE"}
    /\ HeadName # dir[d].path
    /\ Contains(dir[d].changed_files, vfs_dir_find_file(dir[d].file_list, HeadName))

\* C33: changed_files of a live dir holds no entry twice; a Changed or Deleted
\* event for an entry that is pending leaves the dir as it is and emits
\* nothing; and every reconcile pass leaves changed_files and created_files
\* of the dirs of dir_map empty.
C33_PendingOnce ==
    /\ [](\A d \in DirIds : dir[d].st = "live" => NoDuplicates(dir[d].changed_files))
    /\ [][\A d \in DirIds :
            /\ EventForPending(d) =>
                  /\ dir'[d] = dir[d]
                  /\ SignalsOf(emitted', d) = <<>>
            /\ Reconciles(d) =>
                  /\ dir'[d].changed_files = <<>>
                  /\ dir'[d].created_files = <<>>]_vars

\* The ids of the entries of a list.
IdsOf(list) == {list[i].id : i \in 1..Len(list)}

\* The positions in the step's signals of a file-deleted of d with an entity.
DeletedSignals(d) ==
    {j \in 1..Len(emitted') : /\ emitted'[j].sig = "file-deleted"
                              /\ emitted'[j].dir = d
                              /\ emitted'[j].file # 0}

\* The file entities for which this step emits file-deleted on d.
DeletedEntities(d) == {emitted'[i].file : i \in DeletedSignals(d)}

\* The step runs a handler that can reach update_file_info for d.
UpdatesFileInfo(d) == Delivered(d) \/ Reconciles(d)

\* C34: file-deleted is emitted for a file entity only by the step that
\* removes the entity from file_list: the entity is an entry before the step
\* and not after it, no other step emits the signal, and an entity that has
\* left file_list never comes back, so no entity is signalled twice.
C34_DeletedOncePerEntity ==
    [][\A d \in DirIds :
          /\ UpdatesFileInfo(d) =>
                /\ DeletedEntities(d) \subseteq IdsOf(dir[d].file_list)
                /\ DeletedEntities(d) \cap IdsOf(dir'[d].file_list) = {}
                /\ Cardinality(DeletedSignals(d)) = Cardinality(DeletedEntities(d))
          /\ ~UpdatesFileInfo(d) /\ DeletedEntities(d) # {} => emitted' = emitted
          /\ dir[d].st = "live" /\ dir'[d].st = "live" =>
                \A id \in IdsOf(dir'[d].file_list) :
                    id \in IdsOf(dir[d].file_list) \/ id >= nextFile]_vars

\* A reconcile pass has just emitted file-deleted for an entry it removed.
C34_Witness ==
    \E d \in DirIds :
        /\ dir[d].st = "live"
        /\ hist[d].last.evt = "RECONCILE"
        /\ \E i \in 1..Len(emitted) :
              /\ emitted[i] = Sig("file-deleted", d, emitted[i].file, FALSE)
              /\ emitted[i].file # 0
              /\ emitted[i].file \notin IdsOf(dir[d].file_list)
              /\ emitted[i].file < nextFile

\* ---------------------------------------------------------------- thumbnails

\* Bound: the thumbnail requests outstanding for one dir.
MaxRequests == 1

\* vfs_dir_find_file(dir, file_name, file): the first entry that is file or
\* has that name.
vfs_dir_find_file_or(fl, file_name, file) ==
    IF \E i \in 1..Len(fl) : fl[i] = file \/ fl[i].name = file_name
    THEN fl[Min({i \in 1..Len(fl) : fl[i] = file \/ fl[i].name = file_name})]
    ELSE NoFile

ThumbnailUnchanged ==
    UNCHANGED <<dir, dir_map, mime_cb, change_notify_timeout, task, thr, mutex, loop,
                nextFile, disk, hidden_file, diskOps, monitor_hash, mon, inq,
                atVars, mime>>

\* loader_request(file, is_big): the thumbnailer takes a reference to an
\* entry of file_list and works on it in the background.
loader_request(d, file) ==
    /\ loop = 0
    /\ dir[d].st = "live"
    /\ Contains(dir[d].file_list, file)
    /\ file \notin hist[d].thumbnail.requests
    /\ Cardinality(hist[d].thumbnail.requests) < MaxRequests
    /\ hist' = [hist EXCEPT ![d].thumbnail.requests = @ \cup {file}]
    /\ emitted' = <<>>
    /\ ThumbnailUnchanged

\* vfs_dir_emit_thumbnail_loaded(dir, file), called on the event loop when
\* the thumbnailer is done with file. hist records file and file_found, the
\* two sides of the assertion; the signal is what follows the assertion.
vfs_dir_emit_thumbnail_loaded(d, file) ==
    /\ loop = 0
    /\ dir[d].st = "live"
    /\ mutex[d] = "free"
    /\ file \in hist[d].thumbnail.requests
    /\ LET file_found == vfs_dir_find_file_or(dir[d].file_list, file.name, file) IN
       /\ emitted' = IF file_found # NoFile
                     THEN <<Sig("thumbnail-loaded", d, file_found.id, FALSE)>>
                     ELSE <<>>
       /\ hist' = [hist EXCEPT ![d].thumbnail =
                       [requests |-> @.requests \ {file},
                        file |-> file, found |-> file_found],
                    ![d].last = [evt |-> "THUMBNAIL", name |-> file.name]]
    /\ ThumbnailUnchanged

NextThumbnail ==
    \/ NextEvents
    \/ \E d \in DirIds : \E file \in Range(dir[d].file_list) : loader_request(d, file)
    \/ \E d \in DirIds : \E file \in hist[d].thumbnail.requests :
          vfs_dir_emit_thumbnail_loaded(d, file)

SpecThumbnail == InitListed /\ [][NextThumbnail]_vars

\* C35: whenever vfs_dir_emit_thumbnail_loaded finds an entry for the name of
\* its file, the entry is that very file (the assertion), and thumbnail-loaded
\* is emitted only for the file of the request, being an entry of file_list.
C35_ThumbnailAssertion ==
    \A d \in DirIds :
        hist[d].last.evt = "THUMBNAIL" =>
            /\ hist[d].thumbnail.found \in {NoFile, hist[d].thumbnail.file}
            /\ \A i \in 1..Len(emitted) :
                  /\ emitted[i] = Sig("thumbnail-loaded", d, hist[d].thumbnail.file.id, FALSE)
                  /\ Contains(dir[d].file_list, hist[d].thumbnail.file)

\* The step is a call of run() that starts the task function.
RunStarts == ~at.running_ /\ at'.running_

\* C36: every run() that starts the task function starts it with
\* is_canceled() false, whatever happened to the async_thread in earlier
\* runs, and is_canceled() turns true only by a cancel() during the run.
C36_CancelDoesNotLeak ==
    [][/\ RunStarts => ~at'.cancel_
       /\ ~at.cancel_ /\ at'.cancel_ => at.joinable /\ atc.cancel = "idle"]_vars

\* The step runs, for d, code whose g_signal_emit calls all lie between
\* vfs_dir_lock(dir) and vfs_dir_unlock(dir): vfs_dir_emit_file_changed past
\* its two early returns, or update_changed_files / update_created_files.
EmitsInsideLock(d) ==
    \/ /\ Delivered(d)
       /\ HeadEvt = "CHANGE"
       /\ TakesMutex(d, HeadEvt, HeadName)
    \/ Reconciles(d)

\* C37: no step emits a signal of a dir from inside the region in which it
\* holds that dir's mutex.
C37_SignalsOutsideMutex ==
    [][\A d \in DirIds : EmitsInsideLock(d) => SignalsOf(emitted', d) = <<>>]_vars

\* The lines of .hidden that the scan of d has enumerated and left out.
Suppressed(d) ==
    {n \in thr[d].visited \cap Range(hidden_file) : ishidden(thr[d].hidden, n)}

\* C38: a name that the scan left out because of .hidden is never a name of
\* file_list afterwards, and no file-created is emitted for it.
C38_HiddenStayHidden ==
    \A d \in DirIds :
        dir[d].st = "live" =>
            \A n \in Suppressed(d) :
                /\ Count(d, n) = 0
                /\ \A i \in 1..Len(emitted) :
                      emitted[i].sig = "file-created" /\ emitted[i].dir = d =>
                          \A f \in Range(dir[d].file_list) :
                              f.id = emitted[i].file => f.name # n

\* ---------------------------------------------------- vfs_dir_flush_notify_cache

\* What a call of vfs_dir_flush_notify_cache leaves in hist.
FlushHist(s) ==
    [d \in DirIds |->
        [hist[d] EXCEPT !.forced = {f \in @ : ~Signalled(s.em, d, f)},
                        !.last = IF InMap(d) THEN [evt |-> "FLUSH", name |-> ""] ELSE @]]

\* vfs_dir_flush_notify_cache(), called on the event loop: remove the timer,
\* change_notify_timeout = 0, then the loop of notify_file_change.
vfs_dir_flush_notify_cache ==
    /\ loop = 0
    /\ \A d \in LiveDirs :
          (dir[d].changed_files # <<>> \/ dir[d].created_files # <<>>) => mutex[d] = "free"
    /\ LET s == ReconcileFrom([HState EXCEPT !.tmo = FALSE], MapDirs, 1) IN
       /\ s.nf <= MaxFiles + 1
       /\ Commit(s)
       /\ hist' = FlushHist(s)
    /\ UNCHANGED <<dir_map, mime_cb, task, thr, mutex, loop, disk, hidden_file,
                   diskOps, monitor_hash, mon, inq, atVars, mime>>

\* The same while a subscriber of file-created is connected whose handler
\* calls vfs_dir_emit_file_deleted(d2, n), with n another name than the dir's
\* path.
vfs_dir_flush_notify_cache_subscribed(d2, n) ==
    /\ loop = 0
    /\ dir[d2].st = "live"
    /\ \A d \in LiveDirs :
          (dir[d].changed_files # <<>> \/ dir[d].created_files # <<>>) => mutex[d] = "free"
    /\ LET s == ReconcileFrom_subscribed([HState EXCEPT !.tmo = FALSE], MapDirs, 1,
                                         [d |-> d2, name |-> n]) IN
       /\ s.nf <= MaxFiles + 1
       /\ Commit(s)
       /\ hist' = FlushHist(s)
    /\ UNCHANGED <<dir_map, mime_cb, task, thr, mutex, loop, disk, hidden_file,
                   diskOps, monitor_hash, mon, inq, atVars, mime>>

NextFlush ==
    \/ NextSubscribed
    \/ vfs_dir_flush_notify_cache
    \/ \E d2 \in DirIds, n \in Names : vfs_dir_flush_notify_cache_subscribed(d2, n)

SpecFlush == InitListed /\ [][NextFlush]_vars

\* The step is a call of vfs_dir_flush_notify_cache with d in dir_map.
Flushes(d) ==
    /\ hist'[d].last.evt = "FLUSH"
    /\ dir[d].st = "live"
    /\ \/ hist[d].last.evt # "FLUSH"
       \/ emitted' # emitted
       \/ dir'[d] # dir[d]
       \/ change_notify_timeout' # change_notify_timeout

\* C39: when vfs_dir_flush_notify_cache returns, changed_files and
\* created_files of every dir of dir_map are empty and the reconcile timer is
\* disarmed.
C39_FlushReconciles ==
    [][\A d \in DirIds :
          Flushes(d) => /\ dir'[d].changed_files = <<>>
                        /\ dir'[d].created_files = <<>>
                        /\ ~change_notify_timeout']_vars

=============================================================================
